---------------------------- MODULE Spec2Model ----------------------------
(***************************************************************************)
(* Dexbot: the layered memory engine (MemoryStore in src/src/db.js, the    *)
(* MemoryEngine at the end of src/src/dashboard.js) and the per-chat turn  *)
(* queue of the Telegram transport (src/src/telegram.js).                  *)
(*                                                                         *)
(* Text is modelled as a sequence of one-character strings so that the     *)
(* normalisations of the code (trim, lower-case, whitespace collapse) are  *)
(* computed, not assumed.  Confidence is kept in hundredths (72 = 0.72).   *)
(***************************************************************************)
EXTENDS Integers, Sequences, FiniteSets, TLC

VARIABLES
    chats,          \* table chats: chat_id -> row [session_no, thread_id] or NoRow
    sessionState,   \* table session_state: set of rows [chat_id, session_no, turn_count]
    exchanges,      \* table exchanges: sequence of rows in id order
    facts,          \* table facts: set of rows
    contradictions, \* table contradictions: set of rows
    nextFactId,     \* AUTOINCREMENT counter of facts
    today,          \* the clock, in days
    ret,            \* what the last store / engine call returned
    turn,           \* per chat: the state an in-flight turn captured in prepareTurn
    bi,             \* a buildInjection call: its arguments, block, position and result
    rt,             \* a retrieve call: the searches' rows and what it returned
    queueByChat,    \* transport: per chat scope, the promise at the tail of its chain
    tasks,          \* transport: the queued tasks in submission order
    episodes,       \* table episodes: sequence of rows in id order
    open_loops,     \* table open_loops: sequence of rows in id order
    documents,      \* table documents: set of rows, one per (chat_id, path, chunk_index)
    files,          \* the memory root on disk: path -> content
    schema_migrations, \* table schema_migrations: the versions recorded
    schema,         \* the database's schema: the objects the migrations have created
    migrationLog,   \* the migrations whose transaction has committed, in commit order
    mig,            \* the runMigrations call of the process that opens the store
    client,         \* the CodexRpcClient: its socket, flags, reconnect timer and round
    scheduled_jobs, \* table scheduled_jobs: set of rows
    nextJobId,      \* AUTOINCREMENT counter of scheduled_jobs
    scheduleRunningJobIds, \* transport: the ids of the jobs a poll has handed to the queue
    requests,       \* the promises sendRequestUnsafe has returned, by request id
    heartbeatDue    \* the day the interval timer of the heartbeat fires next

storeVars == <<chats, sessionState, exchanges, facts, contradictions, nextFactId, today,
               episodes, open_loops, documents>>
queueVars == <<queueByChat, tasks>>
memVars == <<episodes, open_loops, documents>>
engineVars == <<bi, rt, queueVars, memVars, files>>
processVars == <<client, requests, heartbeatDue>>
bridgeVars == <<processVars, scheduled_jobs, nextJobId, scheduleRunningJobIds>>
hostVars == <<schema_migrations, schema, migrationLog, mig, bridgeVars>>
vars == <<chats, sessionState, exchanges, facts, contradictions, nextFactId, today,
          ret, turn, bi, rt, queueByChat, tasks, episodes, open_loops, documents, files,
          schema_migrations, schema, migrationLog, mig,
          client, requests, heartbeatDue, scheduled_jobs, nextJobId, scheduleRunningJobIds>>

-----------------------------------------------------------------------------
(* Bounds of the model *)

MaxFacts == 2
MaxDay == 1
MaxSession == 2
MaxExchanges == 3

Chats == {1, 2}
NoRow == [none |-> TRUE]
NullThread == "null"
Void == [op |-> "void"]
ThreadIds == {"t1", "t2"}

(* Raw strings handed to upsertFact.  " P" and "p", "S  t" and "s t" differ *)
(* only in case and whitespace.                                            *)
Subjects == { <<"p">>, <<" ", "P">> }
Predicates == { <<"e">> }
Objects == { <<"s", " ", "t">>, <<"S", " ", " ", "t", " ">>, <<"t">> }
Confidences == {13, 62}
DaysOldValues == {0, 1}

(* Program constants, in hundredths *)
DecayFloor == 10
ConfidenceThreshold == 60

-----------------------------------------------------------------------------
(* String helpers: String.prototype.trim / toLowerCase / replace(/\s+/g,' ') *)

Digit == {"0", "1", "2", "3", "4", "5", "6", "7", "8", "9"}
LowerSeq == <<"a", "b", "c", "d", "e", "f", "g", "h", "i", "j", "k", "l", "m",
              "n", "o", "p", "q", "r", "s", "t", "u", "v", "w", "x", "y", "z">>
UpperSeq == <<"A", "B", "C", "D", "E", "F", "G", "H", "I", "J", "K", "L", "M",
              "N", "O", "P", "Q", "R", "S", "T", "U", "V", "W", "X", "Y", "Z">>
LowerAZ == {LowerSeq[i] : i \in 1..Len(LowerSeq)}
UpperAZ == {UpperSeq[i] : i \in 1..Len(UpperSeq)}
Space == {" ", "\t", "\n", "\r"}
WordChar == UpperAZ \cup LowerAZ \cup Digit \cup {"_"}

LowerOf == [ch \in UpperAZ |-> LowerSeq[CHOOSE i \in 1..Len(UpperSeq) : UpperSeq[i] = ch]]
UpperOf == [ch \in LowerAZ |-> UpperSeq[CHOOSE i \in 1..Len(LowerSeq) : LowerSeq[i] = ch]]

IsSpace(ch) == ch \in Space

Lower(ch) == IF ch \in UpperAZ THEN LowerOf[ch] ELSE ch
Upper(ch) == IF ch \in LowerAZ THEN UpperOf[ch] ELSE ch

RECURSIVE TrimStart(_)
TrimStart(s) ==
    IF s = <<>> THEN <<>>
    ELSE IF IsSpace(Head(s)) THEN TrimStart(Tail(s)) ELSE s

RECURSIVE TrimEnd(_)
TrimEnd(s) ==
    IF s = <<>> THEN <<>>
    ELSE IF IsSpace(s[Len(s)]) THEN TrimEnd(SubSeq(s, 1, Len(s) - 1)) ELSE s

Trim(s) == TrimEnd(TrimStart(s))

ToLowerCase(s) == [i \in 1..Len(s) |-> Lower(s[i])]

(* replace(/\s+/g, ' '): every maximal run of whitespace becomes one space *)
CollapseSpaces(s) ==
    LET kept == SelectSeq([i \in 1..Len(s) |-> i],
                          LAMBDA i : IF IsSpace(s[i])
                                     THEN (IF i = 1 THEN TRUE ELSE ~IsSpace(s[i - 1]))
                                     ELSE TRUE)
    IN [k \in 1..Len(kept) |-> IF IsSpace(s[kept[k]]) THEN " " ELSE s[kept[k]]]

(* db.js line 10: const n = (v) => String(v||'').trim().toLowerCase().replace(/\s+/g,' ') *)
NormalizePart(v) == CollapseSpaces(ToLowerCase(Trim(v)))

(* A plausible slip: the key is built without lower-casing. *)
normalizeFactKeyCaseSensitive(subject, predicate, object) ==
    CollapseSpaces(Trim(subject)) \o <<"|">> \o CollapseSpaces(Trim(predicate))
        \o <<"|">> \o CollapseSpaces(Trim(object))

normalizeFactKey(subject, predicate, object) ==
    NormalizePart(subject) \o <<"|">> \o NormalizePart(predicate)
        \o <<"|">> \o NormalizePart(object)

Max(a, b) == IF a >= b THEN a ELSE b
Min(a, b) == IF a <= b THEN a ELSE b

(* seq.slice(0, n) *)
Slice(seq, n) == SubSeq(seq, 1, IF Len(seq) < n THEN Len(seq) ELSE n)

-----------------------------------------------------------------------------
(* Regular expressions, as the code uses them on its texts.                  *)
(* A pattern is a term built from the constructors below; Match lists the    *)
(* ways a pattern matches at a position, in the order a backtracking matcher *)
(* tries them (greedy first, alternatives left to right), so the head of the *)
(* list is the match JavaScript reports.                                     *)

(* the character U+0060, which no string of this module can hold *)
Backtick == "backtick"

Chr(set) == [t |-> "chr", set |-> set, neg |-> FALSE]
NotChr(set) == [t |-> "chr", set |-> set, neg |-> TRUE]
Lit(s) == [t |-> "lit", s |-> s]
Cat(rs) == [t |-> "seq", rs |-> rs]
Alt(rs) == [t |-> "alt", rs |-> rs]
AtLeast(r, n) ==
    [t |-> "rep", r |-> r, min |-> n, max |-> n, unbounded |-> TRUE, lazy |-> FALSE]
AtLeastLazy(r, n) ==
    [t |-> "rep", r |-> r, min |-> n, max |-> n, unbounded |-> TRUE, lazy |-> TRUE]
Between(r, n, m) ==
    [t |-> "rep", r |-> r, min |-> n, max |-> m, unbounded |-> FALSE, lazy |-> FALSE]
Grp(n, r) == [t |-> "grp", n |-> n, r |-> r]
WordB == [t |-> "wb"]
Bol == [t |-> "bol"]

NoCaps == << <<0, 0>>, <<0, 0>> >>
One(i, caps) == << [end |-> i, caps |-> caps] >>

IsWordAt(s, k) == IF k >= 1 /\ k <= Len(s) THEN s[k] \in WordChar ELSE FALSE

ClassHas(re, c, ci) ==
    re.neg # (IF c \in re.set THEN TRUE
              ELSE IF ci THEN Lower(c) \in re.set \/ Upper(c) \in re.set ELSE FALSE)

LitAt(lit, s, i, ci) ==
    IF i + Len(lit) > Len(s) THEN FALSE
    ELSE \A k \in 1..Len(lit) :
            IF ci THEN Lower(s[i + k]) = Lower(lit[k]) ELSE s[i + k] = lit[k]

SetCap(results, n, start) ==
    [k \in 1..Len(results) |->
        [end |-> results[k].end,
         caps |-> [results[k].caps EXCEPT ![n] = <<start, results[k].end>>]]]

(* A repetition of one character class needs no backtracking into the      *)
(* class: it can end after any count between its minimum and the run of     *)
(* class characters at i (or its maximum), longest first unless lazy.       *)
RunLength(class, s, i, ci) ==
    Cardinality({k \in 1..(Len(s) - i) : \A j \in 1..k : ClassHas(class, s[i + j], ci)})

RepMost(re, run) == IF re.unbounded \/ run < re.max THEN run ELSE re.max

ClassRepEnds(re, i, caps, most) ==
    IF most < re.min THEN <<>>
    ELSE [k \in 1..(most - re.min + 1) |->
             [end |-> i + (IF re.lazy THEN re.min + k - 1 ELSE most - k + 1),
              caps |-> caps]]

MatchClassRep(re, s, i, ci, caps) ==
    ClassRepEnds(re, i, caps, RepMost(re, RunLength(re.r, s, i, ci)))

RECURSIVE Match(_, _, _, _, _)
RECURSIVE MatchCat(_, _, _, _, _, _)
RECURSIVE MatchCatEach(_, _, _, _, _)
RECURSIVE MatchAlt(_, _, _, _, _, _)
RECURSIVE MatchRep(_, _, _, _, _, _)
RECURSIVE MatchRepEach(_, _, _, _, _, _)

Match(re, s, i, ci, caps) ==
    CASE re.t = "chr" ->
            IF i < Len(s)
            THEN IF ClassHas(re, s[i + 1], ci) THEN One(i + 1, caps) ELSE <<>>
            ELSE <<>>
      [] re.t = "lit" -> IF LitAt(re.s, s, i, ci) THEN One(i + Len(re.s), caps) ELSE <<>>
      [] re.t = "wb" -> IF IsWordAt(s, i) # IsWordAt(s, i + 1) THEN One(i, caps) ELSE <<>>
      [] re.t = "bol" -> IF i = 0 THEN One(i, caps) ELSE <<>>
      [] re.t = "seq" -> MatchCat(re.rs, 1, s, i, ci, caps)
      [] re.t = "alt" -> MatchAlt(re.rs, 1, s, i, ci, caps)
      [] re.t = "rep" -> IF re.r.t = "chr" THEN MatchClassRep(re, s, i, ci, caps)
                         ELSE MatchRep(re, 0, s, i, ci, caps)
      [] re.t = "grp" -> SetCap(Match(re.r, s, i, ci, caps), re.n, i)

MatchCat(rs, k, s, i, ci, caps) ==
    IF k > Len(rs) THEN One(i, caps)
    ELSE MatchCatEach(Match(rs[k], s, i, ci, caps), rs, k + 1, s, ci)

MatchCatEach(results, rs, k, s, ci) ==
    IF results = <<>> THEN <<>>
    ELSE MatchCat(rs, k, s, Head(results).end, ci, Head(results).caps)
         \o MatchCatEach(Tail(results), rs, k, s, ci)

MatchAlt(rs, k, s, i, ci, caps) ==
    IF k > Len(rs) THEN <<>>
    ELSE Match(rs[k], s, i, ci, caps) \o MatchAlt(rs, k + 1, s, i, ci, caps)

(* stopping here and going on, in the order the repetition tries them *)
RepOrder(re, here, more) == IF re.lazy THEN here \o more ELSE more \o here

MatchRep(re, count, s, i, ci, caps) ==
    RepOrder(re,
             IF count >= re.min THEN One(i, caps) ELSE <<>>,
             MatchRepEach(IF re.unbounded \/ count < re.max
                          THEN Match(re.r, s, i, ci, caps) ELSE <<>>,
                          re, count + 1, s, i, ci))

MatchRepEach(results, re, count, s, from, ci) ==
    IF results = <<>> THEN <<>>
    ELSE (IF Head(results).end > from
          THEN MatchRep(re, count, s, Head(results).end, ci, Head(results).caps)
          ELSE <<>>)
         \o MatchRepEach(Tail(results), re, count, s, from, ci)

(* RegExp.prototype.exec from position p: the leftmost match, if any *)
MatchRecord(first, r) ==
    [found |-> TRUE, start |-> first, end |-> r.end, caps |-> r.caps]

ExecAt(re, ci, s, first) == MatchRecord(first, Head(Match(re, s, first, ci, NoCaps)))

ExecFrom(re, ci, s, starts) ==
    IF starts = {} THEN [found |-> FALSE]
    ELSE ExecAt(re, ci, s, CHOOSE i \in starts : \A j \in starts : i <= j)

Exec(re, ci, s, p) ==
    ExecFrom(re, ci, s, {i \in p..Len(s) : Match(re, s, i, ci, NoCaps) # <<>>})

(* rx.test(s) *)
Test(re, ci, s) == Exec(re, ci, s, 0).found

(* m[0] and m[n] of a match m in s *)
Whole(s, m) == SubSeq(s, m.start + 1, m.end)
Group(s, m, n) == SubSeq(s, m.caps[n][1] + 1, m.caps[n][2])

(* s.replace(rx, ..) with the g flag: `$1` + repl when keep1, else repl.     *)
(* No pattern of the code matches the empty string.                          *)
RECURSIVE ReplaceAll(_, _, _, _, _, _)
RECURSIVE ReplaceMatch(_, _, _, _, _, _, _)
ReplaceMatch(re, ci, s, p, keep1, repl, m) ==
    IF ~m.found THEN SubSeq(s, p + 1, Len(s))
    ELSE SubSeq(s, p + 1, m.start)
         \o (IF keep1 THEN Group(s, m, 1) ELSE <<>>) \o repl
         \o ReplaceAll(re, ci, s, m.end, keep1, repl)

ReplaceAll(re, ci, s, p, keep1, repl) ==
    ReplaceMatch(re, ci, s, p, keep1, repl, Exec(re, ci, s, p))

(* s.match(rx) with the g flag, or matchAll: every match, left to right *)
RECURSIVE MatchAll(_, _, _, _)
RECURSIVE MatchAllAfter(_, _, _, _)
MatchAllAfter(re, ci, s, m) ==
    IF ~m.found THEN <<>>
    ELSE <<m>> \o MatchAll(re, ci, s, m.end)

MatchAll(re, ci, s, p) == MatchAllAfter(re, ci, s, Exec(re, ci, s, p))

-----------------------------------------------------------------------------
(* redactSensitiveText, sanitizeOneLine, isSensitive  (src/src/dashboard.js) *)

\* /\bsk-[A-Za-z0-9_-]{20,}\b/g
RxSkKey ==
    Cat(<<WordB, Lit(<<"s", "k", "-">>),
    AtLeast(Chr(UpperAZ \cup LowerAZ \cup Digit \cup {"_", "-"}), 20),
    WordB>>)

\* /\bAKIA[0-9A-Z]{16}\b/g
RxAwsKey ==
    Cat(<<WordB, Lit(<<"A", "K", "I", "A">>), Between(Chr(Digit \cup UpperAZ),
    16, 16), WordB>>)

\* /-----BEGIN [^-]+-----[\s\S]*?-----END [^-]+-----/g
RxPrivateKeyBlock ==
    Cat(<<Lit(<<"-", "-", "-", "-", "-", "B", "E", "G", "I", "N", " ">>),
    AtLeast(NotChr({"-"}), 1), Lit(<<"-", "-", "-", "-", "-">>),
    AtLeastLazy(NotChr({}), 0), Lit(<<"-", "-", "-", "-", "-", "E", "N",
    "D", " ">>), AtLeast(NotChr({"-"}), 1), Lit(<<"-", "-", "-", "-",
    "-">>)>>)

\* /\b(api[_\s-]?key\s*[:=]\s*)([^\s"'`]{4,})/ig
RxApiKeyAssignment ==
    Cat(<<WordB, Grp(1, Cat(<<Lit(<<"a", "p", "i">>),
    Between(Chr(Space \cup {"_", "-"}), 0, 1), Lit(<<"k", "e", "y">>),
    AtLeast(Chr(Space), 0), Chr({":", "="}), AtLeast(Chr(Space), 0)>>)),
    Grp(2, AtLeast(NotChr(Space \cup {"\"", "'", Backtick}), 4))>>)

\* /\b(token\s*[:=]\s*)([^\s"'`]{4,})/ig
RxTokenAssignment ==
    Cat(<<WordB, Grp(1, Cat(<<Lit(<<"t", "o", "k", "e", "n">>),
    AtLeast(Chr(Space), 0), Chr({":", "="}), AtLeast(Chr(Space), 0)>>)),
    Grp(2, AtLeast(NotChr(Space \cup {"\"", "'", Backtick}), 4))>>)

\* /\b(password\s*[:=]\s*)([^\s"'`]{1,})/ig
RxPasswordAssignment ==
    Cat(<<WordB, Grp(1, Cat(<<Lit(<<"p", "a", "s", "s", "w", "o", "r", "d">>),
    AtLeast(Chr(Space), 0), Chr({":", "="}), AtLeast(Chr(Space), 0)>>)),
    Grp(2, AtLeast(NotChr(Space \cup {"\"", "'", Backtick}), 1))>>)

\* /\b(bearer\s+)([A-Za-z0-9._-]{8,})/ig
RxBearer ==
    Cat(<<WordB, Grp(1, Cat(<<Lit(<<"b", "e", "a", "r", "e", "r">>),
    AtLeast(Chr(Space), 1)>>)), Grp(2,
    AtLeast(Chr(UpperAZ \cup LowerAZ \cup Digit \cup {".", "_", "-"}),
    8))>>)

Redacted == <<"[", "R", "E", "D", "A", "C", "T", "E", "D", "]">>

redactSensitiveText(text) ==
    ReplaceAll(RxBearer, TRUE,
     ReplaceAll(RxPasswordAssignment, TRUE,
      ReplaceAll(RxTokenAssignment, TRUE,
       ReplaceAll(RxApiKeyAssignment, TRUE,
        ReplaceAll(RxPrivateKeyBlock, FALSE,
         ReplaceAll(RxAwsKey, FALSE,
          ReplaceAll(RxSkKey, FALSE, text, 0, FALSE,
                     <<"s", "k", "-", "[", "R", "E", "D", "A", "C", "T", "E", "D", "]">>),
          0, FALSE,
          <<"[", "R", "E", "D", "A", "C", "T", "E", "D", "_", "A", "W", "S", "_", "K",
            "E", "Y", "]">>),
         0, FALSE,
         <<"[", "R", "E", "D", "A", "C", "T", "E", "D", "_", "P", "R", "I", "V", "A",
           "T", "E", "_", "K", "E", "Y", "_", "B", "L", "O", "C", "K", "]">>),
        0, TRUE, Redacted),
       0, TRUE, Redacted),
      0, TRUE, Redacted),
     0, TRUE, Redacted)

(* String(text || '').replace(/\s+/g, ' ').trim(), cut to max with '...' *)
Ellipsis(cleaned, max) ==
    IF Len(cleaned) <= max THEN cleaned
    ELSE SubSeq(cleaned, 1, max - 3) \o <<".", ".", ".">>

sanitizeOneLine(text, max) == Ellipsis(Trim(CollapseSpaces(text)), max)

(* SENSITIVE_PATTERNS, all with the i flag *)
SENSITIVE_PATTERNS ==
    << Cat(<<Lit(<<"a", "p", "i">>), Between(Chr(Space \cup {"_", "-"}), 0, 1),
    Lit(<<"k", "e", "y">>)>>),
       Lit(<<"p", "a", "s", "s", "w", "o", "r", "d">>),
       Lit(<<"s", "e", "c", "r", "e", "t">>),
       Cat(<<Lit(<<"p", "r", "i", "v", "a", "t", "e">>), AtLeast(Chr(Space), 1),
    Lit(<<"k", "e", "y">>)>>),
       Lit(<<"t", "o", "k", "e", "n">>),
       Lit(<<"s", "s", "n">>),
       Cat(<<Lit(<<"c", "r", "e", "d", "i", "t">>), AtLeast(Chr(Space), 0),
    Lit(<<"c", "a", "r", "d">>)>>) >>

isSensitive(text) ==
    \E k \in 1..Len(SENSITIVE_PATTERNS) : Test(SENSITIVE_PATTERNS[k], TRUE, text)

-----------------------------------------------------------------------------
(* Text helpers: split, join, includes, number to text *)

RECURSIVE Join(_, _)
Join(parts, sep) ==
    IF parts = <<>> THEN <<>>
    ELSE IF Len(parts) = 1 THEN parts[1]
    ELSE parts[1] \o sep \o Join(Tail(parts), sep)

(* s.split(rx): the pieces between the matches *)
RECURSIVE Split(_, _, _, _)
RECURSIVE SplitAt(_, _, _, _, _)
SplitAt(re, ci, s, p, m) ==
    IF ~m.found THEN << SubSeq(s, p + 1, Len(s)) >>
    ELSE << SubSeq(s, p + 1, m.start) >> \o Split(re, ci, s, m.end)

Split(re, ci, s, p) == SplitAt(re, ci, s, p, Exec(re, ci, s, p))

(* s.includes(sub) *)
Contains(s, sub) ==
    \E i \in 0..(Len(s) - Len(sub)) : SubSeq(s, i + 1, i + Len(sub)) = sub

DigitSeq == <<"0", "1", "2", "3", "4", "5", "6", "7", "8", "9">>

(* String(n) of a natural number *)
RECURSIVE NumText(_)
NumText(n) ==
    IF n < 10 THEN <<DigitSeq[n + 1]>>
    ELSE NumText(n \div 10) \o <<DigitSeq[(n % 10) + 1]>>

MapSeq(seq, F(_)) == [i \in 1..Len(seq) |-> F(seq[i])]

(* the first element with P, or none *)
FirstWhere(seq, P(_)) ==
    LET hits == SelectSeq(seq, P) IN
    IF hits = <<>> THEN [found |-> FALSE] ELSE [found |-> TRUE, value |-> hits[1]]

IsNonEmpty(s) == s # <<>>

(* Array.from(new Set(seq)): first occurrences, in order *)
RECURSIVE Unique(_)
Unique(seq) ==
    IF seq = <<>> THEN <<>>
    ELSE LET rest == Unique(SubSeq(seq, 1, Len(seq) - 1))
             x == seq[Len(seq)]
         IN IF \E i \in 1..Len(rest) : rest[i] = x THEN rest ELSE Append(rest, x)

-----------------------------------------------------------------------------
(* tokenize, extractEntities and the three extractors (src/src/dashboard.js) *)

STOPWORDS ==
    { <<"t", "h", "e">>,
      <<"a", "n", "d">>,
      <<"f", "o", "r">>,
      <<"w", "i", "t", "h">>,
      <<"t", "h", "a", "t">>,
      <<"t", "h", "i", "s">>,
      <<"f", "r", "o", "m">>,
      <<"y", "o", "u", "r">>,
      <<"h", "a", "v", "e">>,
      <<"w", "i", "l", "l">>,
      <<"i", "n", "t", "o">>,
      <<"a", "b", "o", "u", "t">>,
      <<"w", "h", "a", "t">>,
      <<"w", "h", "e", "n">>,
      <<"w", "h", "e", "r", "e">>,
      <<"w", "h", "i", "c", "h">>,
      <<"w", "o", "u", "l", "d">>,
      <<"c", "o", "u", "l", "d">>,
      <<"s", "h", "o", "u", "l", "d">>,
      <<"t", "h", "e", "r", "e">>,
      <<"t", "h", "e", "i", "r">>,
      <<"t", "h", "e", "m">>,
      <<"t", "h", "e", "n">>,
      <<"t", "h", "a", "n">>,
      <<"b", "e", "e", "n">>,
      <<"w", "e", "r", "e">>,
      <<"a", "l", "s", "o">>,
      <<"j", "u", "s", "t">>,
      <<"l", "i", "k", "e">>,
      <<"w", "a", "n", "t">>,
      <<"n", "e", "e", "d">>,
      <<"d", "o", "e", "s">>,
      <<"d", "i", "d">>,
      <<"y", "o", "u">>,
      <<"a", "r", "e">>,
      <<"o", "u", "r">>,
      <<"b", "u", "t">>,
      <<"n", "o", "t">>,
      <<"c", "a", "n">>,
      <<"i", "t", "s">>,
      <<"t", "o", "o">>,
      <<"v", "e", "r", "y">>,
      <<"g", "e", "t">>,
      <<"g", "o", "t">>,
      <<"h", "a", "d">>,
      <<"h", "i", "m">>,
      <<"h", "e", "r">>,
      <<"h", "i", "s">>,
      <<"s", "h", "e">>,
      <<"w", "h", "o">>,
      <<"h", "o", "w">>,
      <<"w", "h", "y">>,
      <<"m", "a", "k", "e">>,
      <<"m", "a", "d", "e">>,
      <<"b", "e", "e", "n">>,
      <<"b", "e", "i", "n", "g">> }

tokenize(text) ==
    LET \* /[a-z0-9_\/-]{3,}/g
        RxToken ==
            AtLeast(Chr(LowerAZ \cup Digit \cup {"_", "/", "-"}), 3)
        lower == ToLowerCase(text)
        ms == MatchAll(RxToken, FALSE, lower, 0)
    IN SelectSeq([i \in 1..Len(ms) |-> Whole(lower, ms[i])], LAMBDA w : w \notin STOPWORDS)

extractEntities(text) ==
    LET \* /(?:project\s*[:\s]+)([a-z0-9_-]{2,40})/ig
        RxEntityProject ==
            Cat(<<Cat(<<Lit(<<"p", "r", "o", "j", "e", "c", "t">>), AtLeast(Chr(Space),
    0), AtLeast(Chr(Space \cup {":"}), 1)>>), Grp(1,
    Between(Chr(LowerAZ \cup Digit \cup {"_", "-"}), 2, 40))>>)
        \* /#([a-z0-9_-]{2,40})/ig
        RxEntityTag ==
            Cat(<<Lit(<<"#">>), Grp(1, Between(Chr(LowerAZ \cup Digit \cup {"_", "-"}),
    2, 40))>>)
        \* /\b[A-Z][a-zA-Z0-9_-]{2,}\b/g
        RxEntityName ==
            Cat(<<WordB, Chr(UpperAZ),
    AtLeast(Chr(LowerAZ \cup UpperAZ \cup Digit \cup {"_", "-"}), 2),
    WordB>>)
        ps == MatchAll(RxEntityProject, TRUE, text, 0)
        ts == MatchAll(RxEntityTag, TRUE, text, 0)
        ns == MatchAll(RxEntityName, FALSE, text, 0)
        projects == [i \in 1..Len(ps) |->
                        <<"p", "r", "o", "j", "e", "c", "t", ":">> \o ToLowerCase(Group(text, ps[i], 1))]
        tags == [i \in 1..Len(ts) |-> <<"t", "a", "g", ":">> \o ToLowerCase(Group(text, ts[i], 1))]
        names == [i \in 1..Len(ns) |-> Whole(text, ns[i])]
    IN Slice(Unique(projects \o tags \o names), 12)

FactText(f) == f.subject \o <<" ">> \o f.predicate \o <<" ">> \o f.object

FactDedupeKey(f) == ToLowerCase(f.subject \o <<"|">> \o f.predicate \o <<"|">> \o f.object)

RECURSIVE uniqueFacts(_)
uniqueFacts(fs) ==
    IF fs = <<>> THEN <<>>
    ELSE LET rest == uniqueFacts(SubSeq(fs, 1, Len(fs) - 1))
             f == fs[Len(fs)]
         IN IF \E i \in 1..Len(rest) : FactDedupeKey(rest[i]) = FactDedupeKey(f)
            THEN rest ELSE Append(rest, f)

(* A slip: the candidate is pushed without the sensitive-pattern test. *)
pushFactUnchecked(fs, fact) ==
    IF fact.subject = <<>> \/ fact.predicate = <<>> \/ fact.object = <<>> THEN fs
    ELSE Append(fs, fact)

pushFact(fs, fact) ==
    IF fact.subject = <<>> \/ fact.predicate = <<>> \/ fact.object = <<>> THEN fs
    ELSE IF isSensitive(FactText(fact)) THEN fs
    ELSE Append(fs, fact)

PushIf(cond, fs, fact) == IF cond THEN pushFact(fs, fact) ELSE fs

(* if (tz) pushFact({subject: 'user', predicate: 'timezone', ...}) *)
TimezoneFact(fs, userText, tz) ==
    IF tz.found
    THEN pushFact(fs, [subject |-> <<"u", "s", "e", "r">>, predicate |-> <<"t", "i", "m", "e", "z", "o", "n", "e">>,
                  object |-> Group(userText, tz, 1), confidence |-> 90,
                  tags |-> << <<"p", "r", "o", "f", "i", "l", "e">>, <<"t", "i", "m", "e", "z", "o", "n", "e">> >>])
    ELSE fs

(* if (prefers && /short|concise|brief/) ...; if (prefers && /detailed|long|thorough/) ... *)
StyleFacts(fs, prefers, short, detailed) ==
    PushIf(prefers /\ detailed,
           PushIf(prefers /\ short, fs,
                  [subject |-> <<"u", "s", "e", "r">>, predicate |-> <<"p", "r", "e", "f", "e", "r", "s">>,
                  object |-> <<"s", "h", "o", "r", "t", " ", "a", "n", "s", "w", "e", "r", "s">>, confidence |-> 86,
                  tags |-> << <<"p", "r", "e", "f", "e", "r", "e", "n", "c", "e">>, <<"s", "t", "y", "l", "e">> >>]),
           [subject |-> <<"u", "s", "e", "r">>, predicate |-> <<"p", "r", "e", "f", "e", "r", "s">>,
                                        object |-> <<"d", "e", "t", "a", "i", "l", "e", "d", " ", "a", "n", "s", "w", "e", "r",
           "s">>, confidence |-> 86,
                                        tags |-> << <<"p", "r", "e", "f", "e", "r", "e", "n", "c", "e">>, <<"s", "t", "y", "l", "e">> >>])

(* const projectName = pm ? pm[1].toLowerCase() : '' *)
ProjectNameOf(userText, pm) ==
    IF pm.found THEN ToLowerCase(Group(userText, pm, 1)) ELSE <<>>

(* if (stackMatch && projectName) pushFact({subject: `project:${projectName}`, ...}) *)
StackFact(fs, text, stackMatch, projectName) ==
    IF stackMatch.found /\ projectName # <<>>
    THEN pushFact(fs, [subject |-> <<"p", "r", "o", "j", "e", "c", "t", ":">> \o projectName,
                  predicate |-> <<"u", "s", "e", "s", "_", "s", "t", "a", "c", "k">>,
                  object |-> sanitizeOneLine(Group(text, stackMatch, 1), 90),
                  confidence |-> 78,
                  tags |-> << <<"p", "r", "o", "j", "e", "c", "t">>, projectName, <<"s", "t", "a", "c", "k">> >>])
    ELSE fs

(* if (recurringConstraint) pushFact({..., predicate: 'constraint', ...}) *)
ConstraintFact(fs, userText, recurringConstraint, projectName) ==
    IF recurringConstraint.found
    THEN pushFact(fs, [subject |-> IF projectName # <<>>
                              THEN <<"p", "r", "o", "j", "e", "c", "t", ":">> \o projectName
                              ELSE <<"u", "s", "e", "r">>,
                  predicate |-> <<"c", "o", "n", "s", "t", "r", "a", "i", "n", "t">>,
                  object |-> sanitizeOneLine(
                      Group(userText, recurringConstraint, 1), 100),
                  confidence |-> 75,
                  tags |-> << <<"c", "o", "n", "s", "t", "r", "a", "i", "n", "t">> >>])
    ELSE fs

(* if (platform) pushFact({subject: 'user', predicate: 'uses_tool', ...}) *)
ToolFact(fs, userText, platform) ==
    IF platform.found
    THEN pushFact(fs, [subject |-> <<"u", "s", "e", "r">>, predicate |-> <<"u", "s", "e", "s", "_", "t", "o", "o", "l">>,
                  object |-> sanitizeOneLine(Group(userText, platform, 2), 70),
                  confidence |-> 68,
                  tags |-> << <<"t", "o", "o", "l", "i", "n", "g">> >>])
    ELSE fs

(* A slip: the turn's text is not screened, only each candidate is. *)
TurnIsSensitiveNever(text) == FALSE

(* if (isSensitive(text)) return [] *)
TurnIsSensitive(text) == isSensitive(text)

extractFactCandidates(userText, assistantText) ==
    LET \* /(?:timezone(?:\s+is|\s*=|\s*:)?|time\s*zone(?:\s+is|\s*=|\s*:)?|i\s*(?:am|'m)\s+in\s+timezone)\s*([A-Za-z_+-]+\/[A-Za-z_+-]+|UTC[+-]?\d{1,2})/i
        tzRx ==
            Cat(<<Alt(<<Cat(<<Lit(<<"t", "i", "m", "e", "z", "o", "n", "e">>),
    Between(Alt(<<Cat(<<AtLeast(Chr(Space), 1), Lit(<<"i", "s">>)>>),
    Cat(<<AtLeast(Chr(Space), 0), Lit(<<"=">>)>>), Cat(<<AtLeast(Chr(Space),
    0), Lit(<<":">>)>>)>>), 0, 1)>>), Cat(<<Lit(<<"t", "i", "m", "e">>),
    AtLeast(Chr(Space), 0), Lit(<<"z", "o", "n", "e">>),
    Between(Alt(<<Cat(<<AtLeast(Chr(Space), 1), Lit(<<"i", "s">>)>>),
    Cat(<<AtLeast(Chr(Space), 0), Lit(<<"=">>)>>), Cat(<<AtLeast(Chr(Space),
    0), Lit(<<":">>)>>)>>), 0, 1)>>), Cat(<<Lit(<<"i">>),
    AtLeast(Chr(Space), 0), Alt(<<Lit(<<"a", "m">>), Lit(<<"'", "m">>)>>),
    AtLeast(Chr(Space), 1), Lit(<<"i", "n">>), AtLeast(Chr(Space), 1),
    Lit(<<"t", "i", "m", "e", "z", "o", "n", "e">>)>>)>>),
    AtLeast(Chr(Space), 0), Grp(1,
    Alt(<<Cat(<<AtLeast(Chr(UpperAZ \cup LowerAZ \cup {"_", "+", "-"}), 1),
    Lit(<<"/">>), AtLeast(Chr(UpperAZ \cup LowerAZ \cup {"_", "+", "-"}),
    1)>>), Cat(<<Lit(<<"U", "T", "C">>), Between(Chr({"+", "-"}), 0, 1),
    Between(Chr(Digit), 1, 2)>>)>>))>>)
        \* /(i\s+prefer|prefer\s+that|please\s+keep)/i
        RxPrefer ==
            Grp(1, Alt(<<Cat(<<Lit(<<"i">>), AtLeast(Chr(Space), 1), Lit(<<"p", "r",
    "e", "f", "e", "r">>)>>), Cat(<<Lit(<<"p", "r", "e", "f", "e", "r">>),
    AtLeast(Chr(Space), 1), Lit(<<"t", "h", "a", "t">>)>>), Cat(<<Lit(<<"p",
    "l", "e", "a", "s", "e">>), AtLeast(Chr(Space), 1), Lit(<<"k", "e", "e",
    "p">>)>>)>>))
        \* /(short|concise|brief)/i
        RxShort ==
            Grp(1, Alt(<<Lit(<<"s", "h", "o", "r", "t">>), Lit(<<"c", "o", "n", "c",
    "i", "s", "e">>), Lit(<<"b", "r", "i", "e", "f">>)>>))
        \* /(detailed|long|thorough)/i
        RxDetailed ==
            Grp(1, Alt(<<Lit(<<"d", "e", "t", "a", "i", "l", "e", "d">>), Lit(<<"l",
    "o", "n", "g">>), Lit(<<"t", "h", "o", "r", "o", "u", "g", "h">>)>>))
        \* /project\s*[:\s]+([a-zA-Z0-9_-]{2,40})/i
        RxProjectName ==
            Cat(<<Lit(<<"p", "r", "o", "j", "e", "c", "t">>), AtLeast(Chr(Space), 0),
    AtLeast(Chr(Space \cup {":"}), 1), Grp(1,
    Between(Chr(LowerAZ \cup UpperAZ \cup Digit \cup {"_", "-"}), 2, 40))>>)
        \* /(?:uses?|using|stack(?:\s+is)?|built\s+with)\s+([A-Za-z0-9+.#,\s\/-]{3,120})/i
        RxStack ==
            Cat(<<Alt(<<Cat(<<Lit(<<"u", "s", "e">>), Between(Lit(<<"s">>), 0, 1)>>),
    Lit(<<"u", "s", "i", "n", "g">>), Cat(<<Lit(<<"s", "t", "a", "c",
    "k">>), Between(Cat(<<AtLeast(Chr(Space), 1), Lit(<<"i", "s">>)>>), 0,
    1)>>), Cat(<<Lit(<<"b", "u", "i", "l", "t">>), AtLeast(Chr(Space), 1),
    Lit(<<"w", "i", "t", "h">>)>>)>>), AtLeast(Chr(Space), 1), Grp(1,
    Between(Chr(UpperAZ \cup LowerAZ \cup Digit \cup Space \cup {"+", ".",
    "#", ",", "/", "-"}), 3, 120))>>)
        \* /\b(?:always|never|must)\b\s+([^.!?]{8,140})/i
        RxRecurringConstraint ==
            Cat(<<WordB, Alt(<<Lit(<<"a", "l", "w", "a", "y", "s">>), Lit(<<"n", "e",
    "v", "e", "r">>), Lit(<<"m", "u", "s", "t">>)>>), WordB,
    AtLeast(Chr(Space), 1), Grp(1, Between(NotChr({".", "!", "?"}), 8,
    140))>>)
        \* /\b(i\s+use|we\s+use|using)\s+([A-Za-z0-9+.#\/-]{2,60})/i
        RxPlatform ==
            Cat(<<WordB, Grp(1, Alt(<<Cat(<<Lit(<<"i">>), AtLeast(Chr(Space), 1),
    Lit(<<"u", "s", "e">>)>>), Cat(<<Lit(<<"w", "e">>), AtLeast(Chr(Space),
    1), Lit(<<"u", "s", "e">>)>>), Lit(<<"u", "s", "i", "n", "g">>)>>)),
    AtLeast(Chr(Space), 1), Grp(2,
    Between(Chr(UpperAZ \cup LowerAZ \cup Digit \cup {"+", ".", "#", "/",
    "-"}), 2, 60))>>)
        text == userText \o <<"\n">> \o assistantText
    IN IF TurnIsSensitive(text) THEN <<>>
       ELSE uniqueFacts(
                ToolFact(
                 ConstraintFact(
                  StackFact(
                   StyleFacts(
                    TimezoneFact(<<>>, userText, Exec(tzRx, TRUE, userText, 0)),
                    Test(RxPrefer, TRUE, userText), Test(RxShort, TRUE, userText),
                    Test(RxDetailed, TRUE, userText)),
                   text, Exec(RxStack, TRUE, text, 0),
                   ProjectNameOf(userText, Exec(RxProjectName, TRUE, userText, 0))),
                  userText, Exec(RxRecurringConstraint, TRUE, userText, 0),
                  ProjectNameOf(userText, Exec(RxProjectName, TRUE, userText, 0))),
                 userText, Exec(RxPlatform, TRUE, userText, 0)))

extractEpisodeCandidates(userText, assistantText, maxEpisodes) ==
    LET \* /(decid|decision|agreed|plan|we\s+will|chosen|next\s+step|roadmap)/i
        RxHasDecision ==
            Grp(1, Alt(<<Lit(<<"d", "e", "c", "i", "d">>), Lit(<<"d", "e", "c", "i",
    "s", "i", "o", "n">>), Lit(<<"a", "g", "r", "e", "e", "d">>), Lit(<<"p",
    "l", "a", "n">>), Cat(<<Lit(<<"w", "e">>), AtLeast(Chr(Space), 1),
    Lit(<<"w", "i", "l", "l">>)>>), Lit(<<"c", "h", "o", "s", "e", "n">>),
    Cat(<<Lit(<<"n", "e", "x", "t">>), AtLeast(Chr(Space), 1), Lit(<<"s",
    "t", "e", "p">>)>>), Lit(<<"r", "o", "a", "d", "m", "a", "p">>)>>))
        \* /project[:\s]+[a-z0-9_-]{2,40}/i
        RxHasProject ==
            Cat(<<Lit(<<"p", "r", "o", "j", "e", "c", "t">>),
    AtLeast(Chr(Space \cup {":"}), 1),
    Between(Chr(LowerAZ \cup Digit \cup {"_", "-"}), 2, 40)>>)
        \* /project\s*[:\s]+([a-zA-Z0-9_-]{2,40})/i
        RxProjectName ==
            Cat(<<Lit(<<"p", "r", "o", "j", "e", "c", "t">>), AtLeast(Chr(Space), 0),
    AtLeast(Chr(Space \cup {":"}), 1), Grp(1,
    Between(Chr(LowerAZ \cup UpperAZ \cup Digit \cup {"_", "-"}), 2, 40))>>)
        \* /(decid|plan|we\s+will|next\s+step|agreed)/i
        RxDecisionLine ==
            Grp(1, Alt(<<Lit(<<"d", "e", "c", "i", "d">>), Lit(<<"p", "l", "a", "n">>),
    Cat(<<Lit(<<"w", "e">>), AtLeast(Chr(Space), 1), Lit(<<"w", "i", "l",
    "l">>)>>), Cat(<<Lit(<<"n", "e", "x", "t">>), AtLeast(Chr(Space), 1),
    Lit(<<"s", "t", "e", "p">>)>>), Lit(<<"a", "g", "r", "e", "e",
    "d">>)>>))
        \* /\n+/
        RxNewlines ==
            AtLeast(Lit(<<"\n">>), 1)
        \* /[.!?]/
        RxSentenceEnd ==
            Chr({".", "!", "?"})
        combined == userText \o <<"\n">> \o assistantText
        hasDecision == Test(RxHasDecision, TRUE, combined)
        hasProject == Test(RxHasProject, TRUE, combined)
        pm == Exec(RxProjectName, TRUE, userText, 0)
        project == IF pm.found THEN ToLowerCase(Group(userText, pm, 1)) ELSE <<>>
        topic == Join(Slice(tokenize(userText), 6), <<" ">>)
        byLine == FirstWhere(MapSeq(Split(RxNewlines, FALSE, assistantText, 0), Trim),
                             LAMBDA line : Test(RxDecisionLine, TRUE, line))
        bySentence == FirstWhere(MapSeq(Split(RxSentenceEnd, FALSE, assistantText, 0), Trim),
                                 IsNonEmpty)
        decisionLine == Trim(IF byLine.found THEN byLine.value
                             ELSE IF bySentence.found THEN bySentence.value
                             ELSE assistantText)
        summary == sanitizeOneLine(
            <<"T", "o", "p", "i", "c", ":", " ">> \o (IF topic # <<>> THEN topic ELSE <<"s", "e", "s", "s", "i", "o", "n", " ", "c", "o", "n", "t", "e", "x",
    "t">>)
            \o <<".", " ", "D", "e", "c", "i", "s", "i", "o", "n", "/", "c", "o", "n", "t",
    "e", "x", "t", ":", " ">> \o decisionLine, 260)
        tags == << <<"e", "p", "i", "s", "o", "d", "e">> >>
                \o (IF project # <<>> THEN << <<"p", "r", "o", "j", "e", "c", "t">>, project >> ELSE <<>>)
                \o (IF hasDecision THEN << <<"d", "e", "c", "i", "s", "i", "o", "n">> >> ELSE <<>>)
    IN IF ~hasDecision /\ ~hasProject /\ Len(combined) < 180 THEN <<>>
       ELSE Slice(<< [summary |-> summary,
                      entities |-> extractEntities(userText \o <<" ">> \o assistantText),
                      tags |-> tags,
                      salience |-> IF hasDecision THEN 85 ELSE 68] >>, maxEpisodes)

(* line.replace(/^[-*\d.\s]+/, ''): the pattern is anchored at the start *)
StripBullet(line) ==
    LET \* /^[-*\d.\s]+/
        RxBullet ==
            Cat(<<Bol, AtLeast(Chr(Digit \cup Space \cup {"-", "*", "."}), 1)>>)
        m == Match(RxBullet, line, 0, FALSE, NoCaps) IN
    IF m = <<>> THEN line ELSE SubSeq(line, Head(m).end + 1, Len(line))

extractOpenLoops(assistantText) ==
    LET \* /(todo|to do|follow up|open loop|next step)/i
        RxOpenLoop ==
            Grp(1, Alt(<<Lit(<<"t", "o", "d", "o">>), Lit(<<"t", "o", " ", "d", "o">>),
    Lit(<<"f", "o", "l", "l", "o", "w", " ", "u", "p">>), Lit(<<"o", "p",
    "e", "n", " ", "l", "o", "o", "p">>), Lit(<<"n", "e", "x", "t", " ",
    "s", "t", "e", "p">>)>>))
        lines == SelectSeq(MapSeq(Split(Lit(<<"\n">>), FALSE, assistantText, 0), Trim),
                           IsNonEmpty)
    IN Slice(Unique(MapSeq(SelectSeq(lines, LAMBDA line : Test(RxOpenLoop, TRUE, line)),
                           LAMBDA line : sanitizeOneLine(StripBullet(line), 180))), 6)

-----------------------------------------------------------------------------
(* The memory root on disk: paths, file helpers, the files that init() and   *)
(* ensureSessionFiles create  (MemoryEngine, src/src/dashboard.js)           *)

Pad2(n) == IF n < 10 THEN <<"0">> \o NumText(n) ELSE NumText(n)

(* new Date().toISOString() with the clock in days: day 0 is 2026-01-01 *)
toISOString(day) == <<"2", "0", "2", "6", "-", "0", "1", "-">> \o Pad2(day + 1) \o <<"T", "0", "0", ":", "0", "0", ":", "0", "0", ".", "0", "0", "0", "Z">>

(* str.slice(a, b) *)
StrSlice(s, a, b) == SubSeq(s, a + 1, IF b < Len(s) THEN b ELSE Len(s))

PathJoin(a, b) == a \o <<"/">> \o b

PathRoot == <<"m", "e", "m", "o", "r", "y">>

paths ==
    [root |-> PathRoot,
     daily |-> PathJoin(PathRoot, <<"d", "a", "i", "l", "y">>),
     sessions |-> PathJoin(PathRoot, <<"s", "e", "s", "s", "i", "o", "n", "s">>),
     memory |-> PathJoin(PathRoot, <<"M", "E", "M", "O", "R", "Y", ".", "m", "d">>),
     user |-> PathJoin(PathRoot, <<"U", "S", "E", "R", ".", "m", "d">>),
     identity |-> PathJoin(PathRoot, <<"I", "D", "E", "N", "T", "I", "T", "Y", ".", "m", "d">>),
     soul |-> PathJoin(PathRoot, <<"S", "O", "U", "L", ".", "m", "d">>),
     heartbeat |-> PathJoin(PathRoot, <<"H", "E", "A", "R", "T", "B", "E", "A", "T", ".", "m", "d">>),
     tools |-> PathJoin(PathRoot, <<"T", "O", "O", "L", "S", ".", "m", "d">>),
     heartbeatLog |-> PathJoin(PathRoot, <<"h", "e", "a", "r", "t", "b", "e", "a", "t", ".", "l", "o", "g">>)]

(* path.relative(this.paths.root, p) for a path below the root *)
PathRelative(p) == SubSeq(p, Len(PathRoot) + 2, Len(p))

Newline == <<"\n">>

fileExists(fs, filePath) == filePath \in DOMAIN fs

(* A file is its text; the key-facts file is kept as the payload its JSON    *)
(* text parses to, followed by the text after the JSON value, and a file     *)
(* holding one of the canonical texts as the number of that text.  A file    *)
(* of kind "unreadable" exists but readFileSync throws on it (EACCES, EIO)   *)
(* until it is written again.                                                *)
writeFile(fs, filePath, content) ==
    [p \in (DOMAIN fs) \cup {filePath} |-> IF p = filePath THEN content ELSE fs[p]]

writeText(fs, filePath, text) == writeFile(fs, filePath, [kind |-> "text", text |-> text])

writeJson(fs, filePath, payload, tail) ==
    writeFile(fs, filePath, [kind |-> "json", json |-> payload, tail |-> tail])

(* JSON.stringify(value, null, 2) of the key-facts payload *)
RECURSIVE JsonEscape(_)
JsonEscape(s) ==
    IF s = <<>> THEN <<>>
    ELSE (IF Head(s) = "\"" THEN <<"\\", "\"">>
          ELSE IF Head(s) = "\\" THEN <<"\\", "\\">>
          ELSE IF Head(s) = "\n" THEN <<"\\", "n">>
          ELSE IF Head(s) = "\r" THEN <<"\\", "r">>
          ELSE IF Head(s) = "\t" THEN <<"\\", "t">>
          ELSE <<Head(s)>>) \o JsonEscape(Tail(s))

JsonString(s) == <<"\"">> \o JsonEscape(s) \o <<"\"">>

(* a confidence in hundredths as the number JSON prints: 90 is 0.9 *)
JsonConfidence(c) ==
    IF c = 0 THEN <<"0">>
    ELSE IF c = 100 THEN <<"1">>
    ELSE IF c % 10 = 0 THEN <<"0", ".">> \o NumText(c \div 10)
    ELSE <<"0", ".">> \o Pad2(c)

Comma(i, n) == IF i < n THEN <<",">> ELSE <<>>

JsonTagLines(tags) ==
    IF tags = <<>> THEN << <<" ", " ", " ", " ", " ", " ", "\"", "t", "a", "g", "s", "\"", ":", " ",
    "[", "]", ",">> >>
    ELSE << <<" ", " ", " ", " ", " ", " ", "\"", "t", "a", "g", "s", "\"", ":", " ",
    "[">> >>
         \o [i \in 1..Len(tags) |->
                <<" ", " ", " ", " ", " ", " ", " ", " ">> \o JsonString(tags[i]) \o Comma(i, Len(tags))]
         \o << <<" ", " ", " ", " ", " ", " ", "]", ",">> >>

JsonFactLines(f, i, n) ==
    << <<" ", " ", " ", " ", "{">>,
       <<" ", " ", " ", " ", " ", " ", "\"", "s", "u", "b", "j", "e", "c", "t",
    "\"", ":", " ">> \o JsonString(f.subject) \o <<",">>,
       <<" ", " ", " ", " ", " ", " ", "\"", "p", "r", "e", "d", "i", "c", "a",
    "t", "e", "\"", ":", " ">> \o JsonString(f.predicate) \o <<",">>,
       <<" ", " ", " ", " ", " ", " ", "\"", "o", "b", "j", "e", "c", "t", "\"",
    ":", " ">> \o JsonString(f.object) \o <<",">>,
       <<" ", " ", " ", " ", " ", " ", "\"", "c", "o", "n", "f", "i", "d", "e",
    "n", "c", "e", "\"", ":", " ">> \o JsonConfidence(f.confidence) \o <<",">> >>
    \o JsonTagLines(f.tags)
    \o << <<" ", " ", " ", " ", " ", " ", "\"", "u", "p", "d", "a", "t", "e", "d",
    "_", "a", "t", "\"", ":", " ">> \o JsonString(f.updated_at),
          <<" ", " ", " ", " ", "}">> \o Comma(i, n) >>

RECURSIVE JsonFactsLines(_, _)
JsonFactsLines(fs, i) ==
    IF i > Len(fs) THEN <<>>
    ELSE JsonFactLines(fs[i], i, Len(fs)) \o JsonFactsLines(fs, i + 1)

JsonStringify(payload) ==
    Join(<< <<"{">>,
            <<" ", " ", "\"", "c", "h", "a", "t", "_", "i", "d", "\"", ":", " ">> \o NumText(payload.chat_id) \o <<",">>,
            <<" ", " ", "\"", "s", "e", "s", "s", "i", "o", "n", "_", "n", "o", "\"",
    ":", " ">> \o NumText(payload.session_no) \o <<",">>,
            <<" ", " ", "\"", "u", "p", "d", "a", "t", "e", "d", "_", "a", "t", "\"",
    ":", " ">> \o JsonString(payload.updated_at) \o <<",">> >>
         \o (IF payload.facts = <<>> THEN << <<" ", " ", "\"", "f", "a", "c", "t", "s", "\"", ":", " ", "[", "]">> >>
             ELSE << <<" ", " ", "\"", "f", "a", "c", "t", "s", "\"", ":", " ", "[">> >> \o JsonFactsLines(payload.facts, 1)
                  \o << <<" ", " ", "]">> >>)
         \o << <<"}">> >>, Newline)

CanonicalFiles ==
    << [path |-> paths.identity, content |->
            Join(<< <<"#", " ", "I", "D", "E", "N", "T", "I", "T", "Y">>,
                    <<>>,
                    <<"Y", "o", "u", " ", "a", "r", "e", " ", "C", "o", "d", "e", "x", " ", "r",
    "u", "n", "n", "i", "n", "g", " ", "a", "s", " ", "a", " ", "p", "e",
    "r", "s", "i", "s", "t", "e", "n", "t", " ", "e", "n", "g", "i", "n",
    "e", "e", "r", "i", "n", "g", " ", "a", "g", "e", "n", "t", " ", "f",
    "o", "r", " ", "t", "h", "i", "s", " ", "u", "s", "e", "r", ".">>,
                    <<"B", "o", "u", "n", "d", "a", "r", "i", "e", "s", ":">>,
                    <<"-", " ", "D", "o", " ", "n", "o", "t", " ", "f", "a", "b", "r", "i", "c",
    "a", "t", "e", " ", "m", "e", "m", "o", "r", "y", ".">>,
                    <<"-", " ", "P", "r", "e", "f", "e", "r", " ", "c", "o", "n", "c", "r", "e",
    "t", "e", " ", "s", "t", "e", "p", "s", " ", "o", "v", "e", "r", " ",
    "v", "a", "g", "u", "e", " ", "s", "t", "a", "t", "e", "m", "e", "n",
    "t", "s", ".">>,
                    <<"-", " ", "R", "e", "s", "p", "e", "c", "t", " ", "u", "s", "e", "r", "-",
    "a", "p", "p", "r", "o", "v", "e", "d", " ", "a", "c", "c", "e", "s",
    "s", " ", "p", "o", "l", "i", "c", "y", " ", "a", "n", "d", " ", "s",
    "e", "c", "u", "r", "i", "t", "y", " ", "c", "o", "n", "s", "t", "r",
    "a", "i", "n", "t", "s", ".">>,
                    <<"-", " ", "K", "e", "e", "p", " ", "m", "e", "m", "o", "r", "y", " ", "p",
    "r", "e", "c", "i", "s", "e", " ", "a", "n", "d", " ", "a", "u", "d",
    "i", "t", "a", "b", "l", "e", ".">> >>, Newline)],
       [path |-> paths.soul, content |->
            Join(<< <<"#", " ", "S", "O", "U", "L">>,
                    <<>>,
                    <<"P", "e", "r", "s", "o", "n", "a", "l", "i", "t", "y", " ", "a", "n", "d",
    " ", "c", "o", "m", "m", "u", "n", "i", "c", "a", "t", "i", "o", "n",
    " ", "s", "t", "y", "l", "e", ":">>,
                    <<"-", " ", "D", "i", "r", "e", "c", "t", ",", " ", "c", "l", "e", "a", "r",
    ",", " ", "c", "a", "l", "m", ",", " ", "a", "n", "d", " ", "p", "r",
    "a", "g", "m", "a", "t", "i", "c", ".">>,
                    <<"-", " ", "C", "o", "n", "v", "e", "r", "s", "a", "t", "i", "o", "n", "a",
    "l", " ", "h", "u", "m", "a", "n", " ", "l", "a", "n", "g", "u", "a",
    "g", "e", ",", " ", "a", "v", "o", "i", "d", " ", "r", "o", "b", "o",
    "t", "i", "c", " ", "f", "i", "l", "l", "e", "r", ".">>,
                    <<"-", " ", "K", "e", "e", "p", " ", "m", "o", "m", "e", "n", "t", "u", "m",
    ":", " ", "e", "x", "p", "l", "a", "i", "n", " ", "w", "h", "a", "t",
    " ", "i", "s", " ", "h", "a", "p", "p", "e", "n", "i", "n", "g", " ",
    "a", "n", "d", " ", "w", "h", "a", "t", " ", "i", "s", " ", "n", "e",
    "x", "t", ".">>,
                    <<"-", " ", "P", "r", "e", "s", "e", "r", "v", "e", " ", "c", "o", "n", "t",
    "i", "n", "u", "i", "t", "y", " ", "w", "i", "t", "h", " ", "p", "r",
    "i", "o", "r", " ", "u", "s", "e", "r", " ", "p", "r", "e", "f", "e",
    "r", "e", "n", "c", "e", "s", " ", "a", "n", "d", " ", "d", "e", "c",
    "i", "s", "i", "o", "n", "s", ".">>,
                    <<"-", " ", "W", "h", "e", "n", " ", "u", "n", "c", "e", "r", "t", "a", "i",
    "n", ",", " ", "s", "t", "a", "t", "e", " ", "a", "s", "s", "u", "m",
    "p", "t", "i", "o", "n", "s", " ", "e", "x", "p", "l", "i", "c", "i",
    "t", "l", "y", ".">> >>, Newline)],
       [path |-> paths.tools, content |->
            Join(<< <<"#", " ", "T", "O", "O", "L", "S">>,
                    <<>>,
                    <<"T", "o", "o", "l", " ", "u", "s", "e", " ", "r", "u", "l", "e", "s",
    ":">>,
                    <<"-", " ", "U", "s", "e", " ", "s", "h", "e", "l", "l", "/", "t", "o", "o",
    "l", "s", " ", "o", "n", "l", "y", " ", "w", "h", "e", "n", " ", "t",
    "h", "e", "y", " ", "m", "a", "t", "e", "r", "i", "a", "l", "l", "y",
    " ", "i", "m", "p", "r", "o", "v", "e", " ", "c", "o", "r", "r", "e",
    "c", "t", "n", "e", "s", "s", ".">>,
                    <<"-", " ", "P", "r", "e", "f", "e", "r", " ", "f", "a", "s", "t", " ", "s",
    "e", "a", "r", "c", "h", " ", "a", "n", "d", " ", "d", "e", "t", "e",
    "r", "m", "i", "n", "i", "s", "t", "i", "c", " ", "t", "r", "a", "n",
    "s", "f", "o", "r", "m", "a", "t", "i", "o", "n", "s", ".">>,
                    <<"-", " ", "S", "u", "m", "m", "a", "r", "i", "z", "e", " ", "t", "o", "o",
    "l", " ", "o", "u", "t", "p", "u", "t", "s", ";", " ", "a", "v", "o",
    "i", "d", " ", "d", "u", "m", "p", "i", "n", "g", " ", "r", "a", "w",
    " ", "n", "o", "i", "s", "e", ".">>,
                    <<"-", " ", "V", "e", "r", "i", "f", "y", " ", "c", "r", "i", "t", "i", "c",
    "a", "l", " ", "s", "t", "e", "p", "s", " ", "w", "i", "t", "h", " ",
    "e", "x", "p", "l", "i", "c", "i", "t", " ", "c", "h", "e", "c", "k",
    "s", "/", "t", "e", "s", "t", "s", ".">>,
                    <<>>,
                    <<"R", "u", "n", "t", "i", "m", "e", " ", "c", "a", "p", "a", "b", "i", "l",
    "i", "t", "i", "e", "s", ":">>,
                    <<"-", " ", "F", "u", "l", "l", " ", "C", "o", "d", "e", "x", " ", "C", "L",
    "I", " ", "e", "x", "e", "c", "u", "t", "i", "o", "n", " ", "o", "n",
    " ", "t", "h", "i", "s", " ", "i", "s", "o", "l", "a", "t", "e", "d",
    " ", "m", "a", "c", "h", "i", "n", "e", ".">>,
                    <<"-", " ", "T", "e", "l", "e", "g", "r", "a", "m", " ", "c", "o", "m", "m",
    "a", "n", "d", "s", ":", " ", "/", "n", "e", "w", "s", "e", "s", "s",
    "i", "o", "n", ",", " ", "/", "m", "e", "m", "o", "r", "y", ",", " ",
    "/", "h", "e", "a", "r", "t", "b", "e", "a", "t", ",", " ", "/", "s",
    "c", "h", "e", "d", "u", "l", "e", ",", " ", "/", "s", "k", "i", "l",
    "l", ",", " ", "/", "r", "e", "s", "t", "a", "r", "t", ",", " ", "/",
    "a", "u", "t", "o", "s", "t", "a", "r", "t", ",", " ", "/", "c", "h",
    "a", "t", "i", "d", ",", " ", "/", "w", "h", "o", "a", "m", "i", ".">>,
                    <<"-", " ", "S", "k", "i", "l", "l", "s", ":", " ", "c", "r", "e", "a", "t",
    "e", "/", "l", "i", "s", "t", "/", "s", "h", "o", "w", "/", "r", "u",
    "n", " ", "v", "i", "a", " ", "/", "s", "k", "i", "l", "l", ",", " ",
    "e", "x", "p", "l", "i", "c", "i", "t", " ", "$", "s", "k", "i", "l",
    "l", "-", "n", "a", "m", "e", " ", "t", "r", "i", "g", "g", "e", "r",
    " ", "i", "n", " ", "p", "r", "o", "m", "p", "t", "s", ",", " ", "a",
    "n", "d", " ", "n", "a", "t", "u", "r", "a", "l", "-", "l", "a", "n",
    "g", "u", "a", "g", "e", " ", "c", "r", "e", "a", "t", "i", "o", "n",
    " ", "r", "e", "q", "u", "e", "s", "t", "s", ".">>,
                    <<"-", " ", "F", "o", "r", " ", "n", "a", "t", "u", "r", "a", "l", " ", "s",
    "k", "i", "l", "l", " ", "c", "r", "e", "a", "t", "i", "o", "n", ",",
    " ", "e", "m", "i", "t", " ", "e", "x", "a", "c", "t", "l", "y", " ",
    "o", "n", "e", " ", "l", "i", "n", "e", " ", "i", "n", " ", "t", "h",
    "e", " ", "f", "i", "n", "a", "l", " ", "r", "e", "p", "l", "y", " ",
    "w", "h", "e", "n", " ", "r", "e", "a", "d", "y", ":", " ", "S", "K",
    "I", "L", "L", "_", "C", "R", "E", "A", "T", "E", ":", " ", "<", "n",
    "a", "m", "e", ">", " ", "|", " ", "<", "d", "e", "s", "c", "r", "i",
    "p", "t", "i", "o", "n", ">", " ", "|", " ", "<", "i", "n", "s", "t",
    "r", "u", "c", "t", "i", "o", "n", "s", ">", ".", " ", "I", "f", " ",
    "n", "a", "m", "e", " ", "i", "s", " ", "m", "i", "s", "s", "i", "n",
    "g", "/", "a", "m", "b", "i", "g", "u", "o", "u", "s", ",", " ", "a",
    "s", "k", " ", "a", " ", "f", "o", "l", "l", "o", "w", "-", "u", "p",
    " ", "q", "u", "e", "s", "t", "i", "o", "n", " ", "a", "n", "d", " ",
    "d", "o", " ", "n", "o", "t", " ", "e", "m", "i", "t", " ", "S", "K",
    "I", "L", "L", "_", "C", "R", "E", "A", "T", "E", ".">>,
                    <<"-", " ", "P", "r", "o", "a", "c", "t", "i", "v", "e", " ", "s", "c", "h",
    "e", "d", "u", "l", "e", "s", ":", " ", "r", "e", "c", "u", "r", "r",
    "i", "n", "g", " ", "r", "e", "p", "o", "r", "t", "s", " ", "a", "n",
    "d", " ", "h", "e", "a", "r", "t", "b", "e", "a", "t", " ", "c", "h",
    "e", "c", "k", "-", "i", "n", "s", " ", "v", "i", "a", " ", "/", "s",
    "c", "h", "e", "d", "u", "l", "e", ".">> >>,
                 Newline)],
       [path |-> paths.heartbeat, content |->
            Join(<< <<"#", " ", "H", "E", "A", "R", "T", "B", "E", "A", "T">>,
                    <<>>,
                    <<"R", "u", "n", " ", "e", "v", "e", "r", "y", " ", "2", "4", "h", " ", "(",
    "c", "o", "n", "f", "i", "g", "u", "r", "a", "b", "l", "e", ")", ":">>,
                    <<"-", " ", "C", "o", "m", "p", "r", "e", "s", "s", " ", "o", "l", "d", "e",
    "r", " ", "d", "a", "i", "l", "y", " ", "l", "o", "g", "s", " ", "i",
    "n", "t", "o", " ", "w", "e", "e", "k", "l", "y", " ", "s", "u", "m",
    "m", "a", "r", "i", "e", "s", ".">>,
                    <<"-", " ", "D", "e", "d", "u", "p", "l", "i", "c", "a", "t", "e", " ", "f",
    "a", "c", "t", "s", " ", "a", "n", "d", " ", "d", "e", "c", "a", "y",
    " ", "s", "t", "a", "l", "e", " ", "c", "o", "n", "f", "i", "d", "e",
    "n", "c", "e", ".">>,
                    <<"-", " ", "D", "e", "t", "e", "c", "t", " ", "c", "o", "n", "t", "r", "a",
    "d", "i", "c", "t", "i", "o", "n", "s", " ", "(", "s", "a", "m", "e",
    " ", "s", "u", "b", "j", "e", "c", "t", "/", "p", "r", "e", "d", "i",
    "c", "a", "t", "e", ",", " ", "d", "i", "f", "f", "e", "r", "e", "n",
    "t", " ", "o", "b", "j", "e", "c", "t", ")", ".">>,
                    <<"-", " ", "K", "e", "e", "p", " ", "M", "E", "M", "O", "R", "Y", ".", "m",
    "d", " ", "c", "o", "n", "c", "i", "s", "e", " ", "b", "y", " ", "r",
    "e", "t", "a", "i", "n", "i", "n", "g", " ", "o", "n", "l", "y", " ",
    "s", "t", "a", "b", "l", "e", " ", "h", "i", "g", "h", "-", "s", "i",
    "g", "n", "a", "l", " ", "i", "t", "e", "m", "s", ".">> >>,
                 Newline)],
       [path |-> paths.memory, content |->
            Join(<< <<"#", " ", "M", "E", "M", "O", "R", "Y">>,
                    <<>>,
                    <<"C", "u", "r", "a", "t", "e", "d", " ", "l", "o", "n", "g", "-", "t", "e",
    "r", "m", " ", "m", "e", "m", "o", "r", "y", ".", " ", "K", "e", "e",
    "p", " ", "s", "t", "a", "b", "l", "e", " ", "a", "n", "d", " ", "c",
    "o", "m", "p", "a", "c", "t", ".">>,
                    <<>> >>, Newline)],
       [path |-> paths.user, content |->
            Join(<< <<"#", " ", "U", "S", "E", "R">>,
                    <<>>,
                    <<"S", "t", "a", "b", "l", "e", " ", "u", "s", "e", "r", " ", "p", "r", "o",
    "f", "i", "l", "e", " ", "a", "n", "d", " ", "p", "r", "e", "f", "e",
    "r", "e", "n", "c", "e", "s", " ", "(", "c", "u", "r", "a", "t", "e",
    "d", ")", ".">>,
                    <<>> >>, Newline)] >>

(* readText(filePath, fallback): try { return fs.readFileSync(..) } catch    *)
(* { return fallback }, for a file that is missing or cannot be read         *)
readText(fs, filePath, fallback) ==
    IF ~fileExists(fs, filePath) THEN fallback
    ELSE IF fs[filePath].kind = "unreadable" THEN fallback
    ELSE IF fs[filePath].kind = "json"
         THEN JsonStringify(fs[filePath].json) \o fs[filePath].tail
    ELSE IF fs[filePath].kind = "canonical"
         THEN CanonicalFiles[fs[filePath].item].content \o Newline
    ELSE fs[filePath].text

appendText(fs, filePath, text) == writeText(fs, filePath, readText(fs, filePath, <<>>) \o text)

(* for (const item of files) if (!fileExists(item.path))                     *)
(*     writeText(item.path, `${item.content}\n`)                             *)
(* from the i-th canonical file on.  A file written here is kept as the      *)
(* number of its canonical text; readText gives the text followed by "\n".   *)
RECURSIVE writeMissing(_, _)
writeMissing(fs, i) ==
    IF i > Len(CanonicalFiles) THEN fs
    ELSE writeMissing(
             IF fileExists(fs, CanonicalFiles[i].path) THEN fs
             ELSE writeFile(fs, CanonicalFiles[i].path, [kind |-> "canonical", item |-> i]),
             i + 1)

(* ensureCanonicalFiles() *)
ensureCanonicalFiles(fs) ==
    LET \* /Telegram commands:/i
        RxTelegramCommands ==
            Lit(<<"T", "e", "l", "e", "g", "r", "a", "m", " ", "c", "o", "m", "m", "a",
    "n", "d", "s", ":">>)
        \* /\/skill\b/i
        RxSkillCommand ==
            Cat(<<Lit(<<"/", "s", "k", "i", "l", "l">>), WordB>>)
        \* /Proactive schedules:/i
        RxProactiveSchedules ==
            Lit(<<"P", "r", "o", "a", "c", "t", "i", "v", "e", " ", "s", "c", "h", "e",
    "d", "u", "l", "e", "s", ":">>)
        written == writeMissing(fs, 1)
        toolsText == readText(written, paths.tools, <<>>)
    IN IF \/ ~Test(RxTelegramCommands, TRUE, toolsText)
          \/ ~Test(RxSkillCommand, TRUE, toolsText)
          \/ ~Test(RxProactiveSchedules, TRUE, toolsText)
       THEN appendText(written, paths.tools,
              Join(<< <<>>,
                      <<"R", "u", "n", "t", "i", "m", "e", " ", "c", "a", "p", "a", "b", "i", "l",
    "i", "t", "i", "e", "s", ":">>,
                      <<"-", " ", "F", "u", "l", "l", " ", "C", "o", "d", "e", "x", " ", "C", "L",
    "I", " ", "e", "x", "e", "c", "u", "t", "i", "o", "n", " ", "o", "n",
    " ", "t", "h", "i", "s", " ", "i", "s", "o", "l", "a", "t", "e", "d",
    " ", "m", "a", "c", "h", "i", "n", "e", ".">>,
                      <<"-", " ", "T", "e", "l", "e", "g", "r", "a", "m", " ", "c", "o", "m", "m",
    "a", "n", "d", "s", ":", " ", "/", "n", "e", "w", "s", "e", "s", "s",
    "i", "o", "n", ",", " ", "/", "m", "e", "m", "o", "r", "y", ",", " ",
    "/", "h", "e", "a", "r", "t", "b", "e", "a", "t", ",", " ", "/", "s",
    "c", "h", "e", "d", "u", "l", "e", ",", " ", "/", "s", "k", "i", "l",
    "l", ",", " ", "/", "r", "e", "s", "t", "a", "r", "t", ",", " ", "/",
    "a", "u", "t", "o", "s", "t", "a", "r", "t", ",", " ", "/", "c", "h",
    "a", "t", "i", "d", ",", " ", "/", "w", "h", "o", "a", "m", "i", ".">>,
                      <<"-", " ", "S", "k", "i", "l", "l", "s", ":", " ", "c", "r", "e", "a", "t",
    "e", "/", "l", "i", "s", "t", "/", "s", "h", "o", "w", "/", "r", "u",
    "n", " ", "v", "i", "a", " ", "/", "s", "k", "i", "l", "l", " ", "a",
    "n", "d", " ", "e", "x", "p", "l", "i", "c", "i", "t", " ", "$", "s",
    "k", "i", "l", "l", "-", "n", "a", "m", "e", " ", "t", "r", "i", "g",
    "g", "e", "r", " ", "i", "n", " ", "p", "r", "o", "m", "p", "t", "s",
    ".">>,
                      <<"-", " ", "P", "r", "o", "a", "c", "t", "i", "v", "e", " ", "s", "c", "h",
    "e", "d", "u", "l", "e", "s", ":", " ", "r", "e", "c", "u", "r", "r",
    "i", "n", "g", " ", "r", "e", "p", "o", "r", "t", "s", " ", "a", "n",
    "d", " ", "h", "e", "a", "r", "t", "b", "e", "a", "t", " ", "c", "h",
    "e", "c", "k", "-", "i", "n", "s", " ", "v", "i", "a", " ", "/", "s",
    "c", "h", "e", "d", "u", "l", "e", ".">>,
                      <<>> >>, Newline))
       ELSE written

(* The memory root after init() on an empty directory.  The empty function   *)
(* is the empty directory.                                                   *)
NoFiles == [p \in {} |-> <<>>]
InitialFiles == ensureCanonicalFiles(NoFiles)

(* getSessionPaths(chatId, sessionNo) *)
getSessionPaths(chatId, sessionNo) ==
    LET dir == PathJoin(PathJoin(paths.sessions, NumText(chatId)), NumText(sessionNo)) IN
    [dir |-> dir,
     summary |-> PathJoin(dir, <<"s", "e", "s", "s", "i", "o", "n", "_", "s", "u", "m", "m", "a", "r", "y",
    ".", "m", "d">>),
     keyFacts |-> PathJoin(dir, <<"s", "e", "s", "s", "i", "o", "n", "_", "k", "e", "y", "_", "f", "a", "c",
    "t", "s", ".", "j", "s", "o", "n">>)]

(* ensureSessionFiles(chatId, sessionNo) *)
ensureSessionFiles(fs, chatId, sessionNo, now) ==
    LET p == getSessionPaths(chatId, sessionNo)
        fs1 == IF fileExists(fs, p.summary) THEN fs
               ELSE writeText(fs, p.summary,
                        <<"#", " ", "S", "e", "s", "s", "i", "o", "n", " ", "S", "u", "m", "m", "a",
    "r", "y", "\n", "\n", "C", "h", "a", "t", ":", " ">> \o NumText(chatId)
                        \o <<"\n", "S", "e", "s", "s", "i", "o", "n", ":", " ">> \o NumText(sessionNo)
                        \o <<"\n", "\n", "#", "#", " ", "R", "o", "l", "l", "i", "n", "g", " ", "N",
    "o", "t", "e", "s", "\n">>)
    IN IF fileExists(fs1, p.keyFacts) THEN fs1
       ELSE writeJson(fs1, p.keyFacts,
                [chat_id |-> chatId, session_no |-> sessionNo,
                 updated_at |-> toISOString(now), facts |-> <<>>], <<>>)

(* getDailyFile(date) *)
getDailyFile(day) ==
    PathJoin(paths.daily, StrSlice(toISOString(day), 0, 10) \o <<".", "m", "d">>)

-----------------------------------------------------------------------------
(* MemoryStore: chats, session_state, exchanges  (src/src/db.js) *)

ChatExists(chatId) == chats[chatId] # NoRow

(* getSessionState: SELECT * FROM session_state WHERE chat_id = ? AND session_no = ? *)
getSessionState(ss, chatId, sessionNo) ==
    {r \in ss : r.chat_id = chatId /\ r.session_no = sessionNo}

(* ensureChat: get-or-create, a new chat starts at session 1 with no thread *)
ensureChat(ch, chatId) ==
    IF ch[chatId] = NoRow
    THEN [ch EXCEPT ![chatId] = [session_no |-> 1, thread_id |-> NullThread]]
    ELSE ch

(* A slip in the statement: INSERT OR REPLACE, an existing row restarts at 0. *)
ensureSessionStateReplace(ss, chatId, sessionNo) ==
    {r \in ss : ~(r.chat_id = chatId /\ r.session_no = sessionNo)}
    \cup {[chat_id |-> chatId, session_no |-> sessionNo, turn_count |-> 0]}

(* ensureSessionState: get-or-create with turn_count 0 *)
ensureSessionState(ss, chatId, sessionNo) ==
    IF getSessionState(ss, chatId, sessionNo) = {}
    THEN ss \cup {[chat_id |-> chatId, session_no |-> sessionNo, turn_count |-> 0]}
    ELSE ss

(* A slip in the UPDATE: the session counter moves but the thread is kept. *)
incrementSessionKeepThread(ch, chatId) ==
    [ch EXCEPT ![chatId] = [session_no |-> @.session_no + 1, thread_id |-> @.thread_id]]

(* UPDATE chats SET session_no = session_no + 1, thread_id = NULL WHERE chat_id = ? *)
incrementSession(ch, chatId) ==
    [ch EXCEPT ![chatId] = [session_no |-> @.session_no + 1, thread_id |-> NullThread]]

(* A slip: the WHERE clause forgets the session number. *)
bumpSessionTurnAnySession(ss, chatId, sessionNo) ==
    {IF r.chat_id = chatId THEN [r EXCEPT !.turn_count = @ + 1] ELSE r : r \in ss}

(* UPDATE session_state SET turn_count = turn_count + 1 WHERE chat_id = ? AND session_no = ? *)
bumpSessionTurn(ss, chatId, sessionNo) ==
    {IF r.chat_id = chatId /\ r.session_no = sessionNo
        THEN [r EXCEPT !.turn_count = @ + 1] ELSE r : r \in ss}

(* getSessionTurnCount as a read of the table: 0 for a row it would create *)
TurnCountOf(ss, chatId, sessionNo) ==
    IF getSessionState(ss, chatId, sessionNo) = {} THEN 0
    ELSE (CHOOSE r \in getSessionState(ss, chatId, sessionNo) : TRUE).turn_count

(* recentSessionExchanges without the LIMIT, oldest first *)
SessionExchanges(ex, chatId, sessionNo) ==
    SelectSeq(ex, LAMBDA e : e.chat_id = chatId /\ e.session_no = sessionNo)

(* getChatState(chatId): ensureChat, then ensureSessionState for the current *)
(* session; returns the chat row.                                            *)
GetChatState(chatId) ==
    LET ch == ensureChat(chats, chatId) IN
    /\ chats' = ch
    /\ sessionState' = ensureSessionState(sessionState, chatId, ch[chatId].session_no)
    /\ ret' = Void
    /\ UNCHANGED <<hostVars, exchanges, facts, contradictions, nextFactId, today, turn, engineVars>>

(* String.prototype.split(sep) for a one-character separator: the pieces    *)
(* between the places at where the separator stands.                         *)
NthPlace(at, k) == CHOOSE i \in at : Cardinality({j \in at : j < i}) = k - 1

SplitAtPlaces(s, at) ==
    [k \in 1..(Cardinality(at) + 1) |->
        SubSeq(s, IF k = 1 THEN 1 ELSE NthPlace(at, k - 1) + 1,
                  IF k = Cardinality(at) + 1 THEN Len(s) ELSE NthPlace(at, k) - 1)]

SplitOn(s, sep) == SplitAtPlaces(s, {i \in 1..Len(s) : s[i] = sep})

(* .split('\n').slice(0, n).join('\n') *)
FirstLines(text, n) == Join(Slice(SplitOn(text, "\n"), n), Newline)

RuntimeCaps ==
    Join(<< <<"[", "A", "L", "W", "A", "Y", "S", "-", "O", "N", " ", "C", "A", "P", "A",
    "B", "I", "L", "I", "T", "I", "E", "S", "]">>,
            <<"-", " ", "F", "u", "l", "l", " ", "C", "o", "d", "e", "x", " ", "C", "L",
    "I", " ", "e", "x", "e", "c", "u", "t", "i", "o", "n", " ", "w", "i",
    "t", "h", " ", "a", "v", "a", "i", "l", "a", "b", "l", "e", " ", "l",
    "o", "c", "a", "l", " ", "t", "o", "o", "l", "s", ".">>,
            <<"-", " ", "T", "e", "l", "e", "g", "r", "a", "m", " ", "s", "u", "p", "p",
    "o", "r", "t", "s", " ", "t", "e", "x", "t", ",", " ", "f", "i", "l",
    "e", "s", ",", " ", "i", "m", "a", "g", "e", "s", ",", " ", "v", "o",
    "i", "c", "e", ",", " ", "a", "n", "d", " ", "t", "o", "p", "i", "c",
    "-", "s", "c", "o", "p", "e", "d", " ", "s", "e", "s", "s", "i", "o",
    "n", "s", ".">>,
            <<"-", " ", "S", "c", "h", "e", "d", "u", "l", "i", "n", "g", " ", "i", "s",
    " ", "a", "v", "a", "i", "l", "a", "b", "l", "e", " ", "v", "i", "a",
    " ", "/", "s", "c", "h", "e", "d", "u", "l", "e", " ", "a", "n", "d",
    " ", "n", "a", "t", "u", "r", "a", "l", " ", "s", "c", "h", "e", "d",
    "u", "l", "e", " ", "r", "e", "q", "u", "e", "s", "t", "s", ".">>,
            <<"-", " ", "S", "k", "i", "l", "l", "s", " ", "a", "r", "e", " ", "a", "v",
    "a", "i", "l", "a", "b", "l", "e", " ", "v", "i", "a", " ", "/", "s",
    "k", "i", "l", "l", ",", " ", "e", "x", "p", "l", "i", "c", "i", "t",
    " ", "$", "s", "k", "i", "l", "l", "-", "n", "a", "m", "e", " ", "t",
    "r", "i", "g", "g", "e", "r", "s", ",", " ", "a", "n", "d", " ", "n",
    "a", "t", "u", "r", "a", "l", "-", "l", "a", "n", "g", "u", "a", "g",
    "e", " ", "c", "r", "e", "a", "t", "i", "o", "n", " ", "r", "e", "q",
    "u", "e", "s", "t", "s", ".">>,
            <<"-", " ", "K", "e", "e", "p", " ", "m", "e", "m", "o", "r", "y", " ", "b",
    "e", "h", "a", "v", "i", "o", "r", " ", "s", "i", "l", "e", "n", "t",
    ";", " ", "n", "e", "v", "e", "r", " ", "o", "u", "t", "p", "u", "t",
    " ", "i", "n", "t", "e", "r", "n", "a", "l", " ", "m", "e", "m", "o",
    "r", "y", "/", "t", "o", "o", "l", " ", "m", "e", "t", "a", " ", "u",
    "n", "l", "e", "s", "s", " ", "u", "s", "e", "r", " ", "a", "s", "k",
    "s", ".">> >>,
         Newline)

(* buildAlwaysOnCoreInstructions(): the first lines of the identity, soul,   *)
(* user and tools files of the memory root, under their headers.             *)
buildAlwaysOnCoreInstructions(fs) ==
    Join(<< <<"[", "A", "L", "W", "A", "Y", "S", "-", "O", "N", " ", "I", "D", "E", "N",
    "T", "I", "T", "Y", "]">>,
            FirstLines(readText(fs, paths.identity, <<>>), 24),
            <<>>,
            <<"[", "A", "L", "W", "A", "Y", "S", "-", "O", "N", " ", "S", "O", "U", "L",
    "]">>,
            FirstLines(readText(fs, paths.soul, <<>>), 28),
            <<>>,
            <<"[", "A", "L", "W", "A", "Y", "S", "-", "O", "N", " ", "U", "S", "E", "R",
    "]">>,
            FirstLines(readText(fs, paths.user, <<>>), 28),
            <<>>,
            <<"[", "A", "L", "W", "A", "Y", "S", "-", "O", "N", " ", "T", "O", "O", "L",
    "S", "]">>,
            FirstLines(readText(fs, paths.tools, <<>>), 34),
            <<>>,
            RuntimeCaps >>,
         Newline)

(* A turn begins (runPromptTurn: prepared = memory.prepareTurn(chatId, ..)): *)
(* prepareTurn calls getChatState and ensureSessionFiles, and the turn keeps *)
(* the chat row as its state.  Of the developer instructions it returns, the *)
(* always-on block is kept: the retrieval it makes reads the store only.     *)
PrepareTurn(chatId) ==
    LET ch == ensureChat(chats, chatId) IN
    /\ turn[chatId] = NoRow
    /\ chats' = ch
    /\ sessionState' = ensureSessionState(sessionState, chatId, ch[chatId].session_no)
    /\ files' = ensureSessionFiles(files, chatId, ch[chatId].session_no, today)
    /\ turn' = [turn EXCEPT ![chatId] = ch[chatId]]
    /\ ret' = [op |-> "prepareTurn", chatId |-> chatId,
               alwaysOn |-> buildAlwaysOnCoreInstructions(files)]
    /\ UNCHANGED <<hostVars, exchanges, facts, contradictions, nextFactId, today, bi, rt, queueVars,
                   memVars>>

(* startNewSession(chatId) *)
StartNewSession(chatId) ==
    LET ch0 == ensureChat(chats, chatId)
        ss0 == ensureSessionState(sessionState, chatId, ch0[chatId].session_no)
        ch1 == incrementSession(ch0, chatId)
        next == ch1[chatId]
    IN
    /\ ch0[chatId].session_no < MaxSession
    /\ chats' = ch1
    /\ sessionState' = ensureSessionState(ss0, chatId, next.session_no)
    /\ ret' = [op |-> "startNewSession", state |-> next]
    /\ UNCHANGED <<hostVars, exchanges, facts, contradictions, nextFactId, today, turn, engineVars>>

(* setThreadId(chatId, threadId), called by a turn once ensureThread returned *)
(* a thread other than the one in the state it captured; the caller then     *)
(* updates its own copy (prepared.state.thread_id = threadId).               *)
SetThreadId(chatId, threadId) ==
    /\ turn[chatId] # NoRow
    /\ threadId # turn[chatId].thread_id
    /\ chats' = [chats EXCEPT ![chatId] = [@ EXCEPT !.thread_id = threadId]]
    /\ turn' = [turn EXCEPT ![chatId] = [@ EXCEPT !.thread_id = threadId]]
    /\ ret' = Void
    /\ UNCHANGED <<hostVars, sessionState, exchanges, facts, contradictions, nextFactId, today, engineVars>>

(* recordExchange(chatId, sessionNo, userText, assistantText) on the tables *)
recordExchange(ex, ss, chatId, sessionNo, userText, assistantText) ==
    [exchanges |-> Append(ex, [chat_id |-> chatId, session_no |-> sessionNo,
                               user_text |-> userText, assistant_text |-> assistantText]),
     sessionState |-> bumpSessionTurn(ensureSessionState(ss, chatId, sessionNo),
                                      chatId, sessionNo)]

(* recordExchange as the last store call of a turn: the session number is    *)
(* the one of the state the turn captured (state.session_no).                *)
RecordExchange(chatId, userText, assistantText) ==
    /\ turn[chatId] # NoRow
    /\ Len(exchanges) < MaxExchanges
    /\ \E r \in {recordExchange(exchanges, sessionState, chatId, turn[chatId].session_no,
                                userText, assistantText)} :
          /\ exchanges' = r.exchanges
          /\ sessionState' = r.sessionState
    /\ turn' = [turn EXCEPT ![chatId] = NoRow]
    /\ ret' = Void
    /\ UNCHANGED <<hostVars, chats, facts, contradictions, nextFactId, today, engineVars>>

-----------------------------------------------------------------------------
(* MemoryStore: facts and contradictions  (src/src/db.js) *)

(* findFactByKey: SELECT * FROM facts WHERE chat_id = ? AND fact_key = ? *)
findFactByKey(fs, chatId, factKey) ==
    LET rows == {r \in fs : r.chat_id = chatId /\ r.fact_key = factKey} IN
    IF rows = {} THEN NoRow ELSE CHOOSE r \in rows : TRUE

(* The constraints of table facts that an INSERT must pass:                  *)
(* FOREIGN KEY(chat_id) REFERENCES chats and UNIQUE(chat_id, fact_key).      *)
FactInsertAllowed(ch, fs, chatId, factKey) ==
    /\ ch[chatId] # NoRow
    /\ \A r \in fs : ~(r.chat_id = chatId /\ r.fact_key = factKey)

(* A slip in the merge: the reasserted confidence overwrites the stored one. *)
mergeConfidenceOverwrite(old, new) == new

(* A slip in the merge: the stored confidence is kept whatever is reasserted. *)
mergeConfidenceKeepOld(old, new) == old

(* Math.max(Number(found.confidence || 0), Number(confidence || 0)) *)
mergeConfidence(old, new) == Max(old, new)

(* Array.from(new Set(tags.map((t) => String(t).trim()).filter(Boolean))) *)
cleanTags(tags) == Unique(SelectSeq(MapSeq(tags, Trim), IsNonEmpty))

(* a || b on strings: the empty string and null are both falsy *)
OrElse(a, b) == IF a # <<>> THEN a ELSE b

(* upsertFact({chatId, subject, predicate, object, confidence, tags,         *)
(* createdAt, sourceFile, sourceExcerpt}) on the tables fs (facts), nid (the *)
(* AUTOINCREMENT counter) and ch (chats): the tables after the call and what *)
(* it returned.  An INSERT that fails a constraint throws and stores nothing.*)
upsertFact(fs, nid, ch, chatId, subject, predicate, object, confidence, tags, now, sourceFile, sourceExcerpt) ==
    LET factKey == normalizeFactKey(subject, predicate, object)
        found == findFactByKey(fs, chatId, factKey)
    IN
    IF found = NoRow
    THEN IF FactInsertAllowed(ch, fs, chatId, factKey)
         THEN [facts |-> fs \cup {[
                   id |-> nid, chat_id |-> chatId,
                   subject |-> subject, predicate |-> predicate, object |-> object,
                   confidence |-> confidence,
                   tags |-> cleanTags(tags),
                   last_confirmed_at |-> now,
                   source_file |-> sourceFile, source_excerpt |-> sourceExcerpt,
                   fact_key |-> factKey, active |-> 1]},
               nextFactId |-> nid + 1,
               ret |-> [op |-> "upsertFact", id |-> nid,
                        inserted |-> TRUE, updated |-> FALSE]]
         ELSE [facts |-> fs, nextFactId |-> nid,
               ret |-> [op |-> "upsertFact", error |-> TRUE]]
    ELSE [facts |-> (fs \ {found}) \cup {[found EXCEPT
                   !.confidence = mergeConfidence(found.confidence, confidence),
                   !.tags = Unique(found.tags \o cleanTags(tags)),
                   !.last_confirmed_at = now,
                   !.source_file = OrElse(sourceFile, found.source_file),
                   !.source_excerpt = OrElse(sourceExcerpt, found.source_excerpt),
                   !.active = 1]},
          nextFactId |-> nid,
          ret |-> [op |-> "upsertFact", id |-> found.id,
                   inserted |-> FALSE, updated |-> TRUE]]

(* upsertFact called on the store with no tags and no source *)
UpsertFact(chatId, subject, predicate, object, confidence) ==
    /\ \E r \in {upsertFact(facts, nextFactId, chats, chatId, subject, predicate, object,
                            confidence, <<>>, today, <<>>, <<>>)} :
          /\ r.nextFactId <= MaxFacts + 1
          /\ facts' = r.facts
          /\ nextFactId' = r.nextFactId
          /\ ret' = r.ret
    /\ UNCHANGED <<hostVars, chats, sessionState, exchanges, contradictions, today, turn, engineVars>>

(* A slip in the WHERE clause: >= ? for > ?, a fact confirmed exactly daysOld *)
(* days ago decays too.                                                      *)
IsStaleInclusive(r, chatId, daysOld) ==
    /\ r.chat_id = chatId
    /\ r.active = 1
    /\ today - r.last_confirmed_at >= daysOld

(* The WHERE clause of decayFacts: julianday('now') - julianday(last_confirmed_at) > ? *)
IsStale(r, chatId, daysOld) ==
    /\ r.chat_id = chatId
    /\ r.active = 1
    /\ today - r.last_confirmed_at > daysOld

(* A slip: the floor is forgotten and the confidence only stops at 0. *)
decayedConfidenceNoFloor(confidence, decayStep) == Max(0, confidence - decayStep)

(* SET confidence = MAX(0.1, confidence - ?) *)
decayedConfidence(confidence, decayStep) == Max(DecayFloor, confidence - decayStep)

(* decayFactConfidence(chatId, daysOld, decayStep) *)
DecayFactConfidence(chatId, daysOld, decayStep) ==
    /\ facts' = {IF IsStale(r, chatId, daysOld)
                    THEN [r EXCEPT !.confidence = decayedConfidence(@, decayStep)]
                    ELSE r : r \in facts}
    /\ ret' = Void
    /\ UNCHANGED <<hostVars, chats, sessionState, exchanges, contradictions, nextFactId, today, turn, engineVars>>

(* contradictionCandidates: active facts of the chat at or above the floor,  *)
(* GROUP BY subject, predicate HAVING COUNT(DISTINCT object) > 1.            *)
(* A slip in the WHERE clause: the confidence floor is left out. *)
ContradictionPoolNoFloor(chatId, minConfidence) ==
    {r \in facts : r.chat_id = chatId /\ r.active = 1}

ContradictionPool(chatId, minConfidence) ==
    {r \in facts : r.chat_id = chatId /\ r.active = 1 /\ r.confidence >= minConfidence}

GroupObjects(pool, subject, predicate) ==
    {r.object : r \in {q \in pool : q.subject = subject /\ q.predicate = predicate}}

contradictionCandidates(chatId, minConfidence) ==
    LET pool == ContradictionPool(chatId, minConfidence) IN
    {g \in {[subject |-> r.subject, predicate |-> r.predicate,
             objects |-> GroupObjects(pool, r.subject, r.predicate)] : r \in pool} :
        Cardinality(g.objects) > 1}

(* A slip in the statement: a plain INSERT with no ON CONFLICT clause on a   *)
(* table that lacks the UNIQUE constraint.                                   *)
insertContradictionPlain(table, chatId, g, detectedAt) ==
    table \cup {[chat_id |-> chatId, subject |-> g.subject, predicate |-> g.predicate,
                 objects |-> g.objects, detected_at |-> detectedAt, status |-> "open"]}

(* insertContradiction: INSERT ... ON CONFLICT(chat_id, subject, predicate, status) *)
(* DO UPDATE SET objects_json, detected_at                                   *)
insertContradiction(table, chatId, g, detectedAt) ==
    {c \in table : ~(c.chat_id = chatId /\ c.subject = g.subject
                     /\ c.predicate = g.predicate /\ c.status = "open")}
    \cup {[chat_id |-> chatId, subject |-> g.subject, predicate |-> g.predicate,
           objects |-> g.objects, detected_at |-> detectedAt, status |-> "open"]}

RECURSIVE insertContradictions(_, _, _, _)
insertContradictions(table, chatId, groups, detectedAt) ==
    IF groups = {} THEN table
    ELSE LET g == CHOOSE x \in groups : TRUE IN
         insertContradictions(insertContradiction(table, chatId, g, detectedAt),
                              chatId, groups \ {g}, detectedAt)

(* detectContradictions(chatId, minConfidence) *)
DetectContradictions(chatId, minConfidence) ==
    LET rows == contradictionCandidates(chatId, minConfidence)
        found == {g \in rows : Cardinality(g.objects) >= 2}
    IN
    /\ (found # {} => ChatExists(chatId))
    /\ contradictions' = insertContradictions(contradictions, chatId, found, today)
    /\ ret' = [op |-> "detectContradictions", found |-> found]
    /\ UNCHANGED <<hostVars, chats, sessionState, exchanges, facts, nextFactId, today, turn, engineVars>>

(* A slip in the GROUP BY: the rows are grouped by chat_id alone. *)
duplicateFactRowsByChat ==
    {g \in {{q \in facts : q.chat_id = r.chat_id} : r \in facts} : Cardinality(g) > 1}

(* duplicateFactRows: GROUP BY chat_id, fact_key HAVING more than one row *)
duplicateFactRows ==
    {g \in {{q \in facts : q.chat_id = r.chat_id /\ q.fact_key = r.fact_key} : r \in facts} :
        Cardinality(g) > 1}

(* ORDER BY confidence DESC, last_confirmed_at DESC; rows[0] is kept *)
KeptRow(group) ==
    CHOOSE r \in group : \A q \in group :
        \/ r.confidence > q.confidence
        \/ r.confidence = q.confidence /\ r.last_confirmed_at >= q.last_confirmed_at

(* dedupeFacts() *)
DedupeFacts ==
    LET deleted == UNION {g \ {KeptRow(g)} : g \in duplicateFactRows} IN
    /\ facts' = facts \ deleted
    /\ ret' = Void
    /\ UNCHANGED <<hostVars, chats, sessionState, exchanges, contradictions, nextFactId, today, turn, engineVars>>

(* Time passes. *)
Tick ==
    /\ today < MaxDay
    /\ today' = today + 1
    /\ ret' = Void
    /\ UNCHANGED <<hostVars, chats, sessionState, exchanges, facts, contradictions, nextFactId, turn, engineVars>>

-----------------------------------------------------------------------------
(* MemoryStore.runMigrations  (src/src/db.js)                                *)
(* The database keeps its schema and the ledger schema_migrations; the       *)
(* process that opens it runs the migrations one transaction at a time and   *)
(* may be killed at any point, which rolls an open transaction back.         *)

LastMigration == 5
Versions == 1..LastMigration

(* the statements of a migration's SQL, by the object each creates *)
MigrationSql(version) ==
    IF version = 1 THEN <<"chats", "session_state", "exchanges">>
    ELSE IF version = 2 THEN <<"facts", "episodes", "documents", "open_loops", "contradictions">>
    ELSE IF version = 3 THEN <<"facts_fts", "episodes_fts", "documents_fts">>
    ELSE IF version = 4 THEN <<"exchanges.date_key", "idx_exchanges_chat_date">>
    ELSE <<"scheduled_jobs">>

MigrationObjects(version) == {MigrationSql(version)[i] : i \in 1..Len(MigrationSql(version))}

LedgerTable == {"schema_migrations"}

(* the schema of a database on which the first n migrations have run *)
SchemaAfter(n) ==
    (IF n = 0 THEN {} ELSE LedgerTable) \cup UNION {MigrationObjects(v) : v \in 1..n}

NoCall == [pc |-> "idle"]

(* A slip: the snapshot of the ledger is not consulted. *)
IsAppliedNever(applied, version) == FALSE

(* applied.has(migration.version) *)
IsApplied(applied, version) == version \in applied

(* runMigrations begins: CREATE TABLE IF NOT EXISTS schema_migrations, then  *)
(* const applied = new Set(SELECT version FROM schema_migrations)            *)
OpenStore ==
    /\ mig.pc = "idle"
    /\ schema' = schema \cup LedgerTable
    /\ mig' = [pc |-> "next", version |-> 1, applied |-> schema_migrations]
    /\ UNCHANGED <<schema_migrations, migrationLog, storeVars, ret, turn, engineVars,
                   bridgeVars>>

(* if (applied.has(version)) continue  /  if (!applied.has(4)), (5) *)
MigrationSkip ==
    /\ mig.pc = "next"
    /\ mig.version \in Versions
    /\ IsApplied(mig.applied, mig.version)
    /\ mig' = [mig EXCEPT !.version = @ + 1]
    /\ UNCHANGED <<schema_migrations, schema, migrationLog, storeVars, ret, turn, engineVars,
                   bridgeVars>>

(* const tx = this.db.transaction(() => { ... }); tx(): BEGIN *)
MigrationBegin ==
    /\ mig.pc = "next"
    /\ mig.version \in Versions
    /\ ~IsApplied(mig.applied, mig.version)
    /\ mig' = [pc |-> "exec", version |-> mig.version, applied |-> mig.applied, stmt |-> 1,
               saved |-> [schema |-> schema, schema_migrations |-> schema_migrations]]
    /\ UNCHANGED <<schema_migrations, schema, migrationLog, storeVars, ret, turn, engineVars,
                   bridgeVars>>

(* this.db.exec(migration.sql), one statement at a time: every statement is *)
(* CREATE .. IF NOT EXISTS, and the ALTER TABLE of migration 4 is guarded by *)
(* hasDateKey                                                                *)
MigrationExec ==
    /\ mig.pc = "exec"
    /\ schema' = schema \cup {MigrationSql(mig.version)[mig.stmt]}
    /\ mig' = IF mig.stmt = Len(MigrationSql(mig.version))
              THEN [mig EXCEPT !.pc = "record"]
              ELSE [mig EXCEPT !.stmt = @ + 1]
    /\ UNCHANGED <<schema_migrations, migrationLog, storeVars, ret, turn, engineVars,
                   bridgeVars>>

(* INSERT INTO schema_migrations(version, ..) for 1..3, which throws on a    *)
(* recorded version (PRIMARY KEY) and rolls the transaction back; INSERT OR  *)
(* IGNORE for 4 and 5                                                        *)
MigrationRecord ==
    /\ mig.pc = "record"
    /\ IF mig.version \in schema_migrations /\ mig.version <= 3
       THEN /\ schema' = mig.saved.schema
            /\ schema_migrations' = mig.saved.schema_migrations
            /\ mig' = [pc |-> "failed", version |-> mig.version]
       ELSE /\ schema_migrations' = schema_migrations \cup {mig.version}
            /\ mig' = [mig EXCEPT !.pc = "commit"]
            /\ schema' = schema
    /\ UNCHANGED <<migrationLog, storeVars, ret, turn, engineVars,
                   bridgeVars>>

(* COMMIT *)
MigrationCommit ==
    /\ mig.pc = "commit"
    /\ migrationLog' = Append(migrationLog, mig.version)
    /\ mig' = [pc |-> "next", version |-> mig.version + 1, applied |-> mig.applied]
    /\ UNCHANGED <<schema_migrations, schema, storeVars, ret, turn, engineVars,
                   bridgeVars>>

(* runMigrations returns; the store is open until the process exits *)
MigrationsDone ==
    /\ mig.pc = "next"
    /\ mig.version = LastMigration + 1
    /\ mig' = [pc |-> "open", applied |-> mig.applied]
    /\ UNCHANGED <<schema_migrations, schema, migrationLog, storeVars, ret, turn, engineVars,
                   bridgeVars>>

(* the process exits or is killed: SQLite rolls an open transaction back *)
ProcessExit ==
    /\ mig.pc # "idle"
    /\ IF mig.pc \in {"exec", "record", "commit"}
       THEN /\ schema' = mig.saved.schema
            /\ schema_migrations' = mig.saved.schema_migrations
       ELSE UNCHANGED <<schema, schema_migrations>>
    /\ mig' = NoCall
    /\ UNCHANGED <<migrationLog, storeVars, ret, turn, engineVars,
                   bridgeVars>>

RECURSIVE UpTo(_)
UpTo(n) == IF n = 0 THEN <<>> ELSE Append(UpTo(n - 1), n)

(* a database that the first n migrations have run on, not opened *)
MigratedTo(n) ==
    /\ schema_migrations = 1..n
    /\ schema = SchemaAfter(n)
    /\ migrationLog = UpTo(n)
    /\ mig = NoCall

-----------------------------------------------------------------------------
-----------------------------------------------------------------------------
(* CodexRpcClient: the socket to the app-server and its reconnecting         *)
(* (src/unnamed/part_001).  A step is the code of a handler or of an async   *)
(* function between two awaits; delays are in milliseconds.  The client      *)
(* keeps the last event it emitted.                                          *)

ReconnectRetries == 5
ReconnectBackoffCap == 8000
SocketCloseDelay == 800

NoRound == [pc |-> "idle"]

(* the constructor *)
NewClient(autoSpawnAppServer) ==
    [autoSpawnAppServer |-> autoSpawnAppServer, ws |-> "null", initialized |-> FALSE,
     serverProc |-> FALSE, stopping |-> FALSE, reconnectTimer |-> 0,
     reconnectInProgress |-> FALSE, round |-> NoRound, emitted |-> "none",
     nextId |-> 1, pending |-> {}, closing |-> FALSE]

(* after start() has connected and initialized *)
StartedClient(autoSpawnAppServer) ==
    [NewClient(autoSpawnAppServer) EXCEPT !.ws = "open", !.initialized = TRUE]

(* scheduleReconnect(delayMs): the timer is set unless the client is         *)
(* stopping, a timer is set or a reconnect round is in progress              *)
scheduleReconnect(c, delayMs) ==
    IF c.stopping \/ c.reconnectTimer # 0 \/ c.reconnectInProgress THEN c
    ELSE [c EXCEPT !.reconnectTimer = delayMs]

(* spawnServer(): the process and its handlers *)
spawnServer(c) ==
    IF c.stopping \/ c.serverProc THEN c ELSE [c EXCEPT !.serverProc = TRUE]

(* the timer callback after ensureConnected has resolved *)
roundSucceeds(c) ==
    [c EXCEPT !.emitted = "reconnected", !.reconnectInProgress = FALSE, !.round = NoRound]

(* the timer callback after ensureConnected has thrown: the catch block,     *)
(* then the finally block                                                    *)
roundFails(c) ==
    LET caught == [c EXCEPT !.emitted = "reconnect-failed"]
        again == IF ~caught.stopping
                 THEN scheduleReconnect(caught, Min(c.round.delayMs * 2, ReconnectBackoffCap))
                 ELSE caught
    IN [again EXCEPT !.reconnectInProgress = FALSE, !.round = NoRound]

(* ensureConnected: an iteration of its loop up to its first await *)
attemptBegins(c, attempt) ==
    IF c.ws = "open" /\ c.initialized THEN roundSucceeds(c)
    ELSE [c EXCEPT !.round = [pc |-> IF c.ws # "open" THEN "connect" ELSE "initialize",
                              attempt |-> attempt, delayMs |-> c.round.delayMs]]

(* ensureConnected: the catch block of an iteration, and the throw after the last *)
attemptFails(c) ==
    LET caught == [c EXCEPT !.initialized = FALSE]
        spawned == IF caught.autoSpawnAppServer THEN spawnServer(caught) ELSE caught
    IN IF c.round.attempt < ReconnectRetries
       THEN [spawned EXCEPT !.round = [@ EXCEPT !.pc = "delay"]]
       ELSE roundFails(spawned)

(* a step of the client that leaves it as c with the promises rs *)
RpcStep(c, rs) ==
    /\ client' = c
    /\ requests' = rs
    /\ UNCHANGED <<schema_migrations, schema, migrationLog, mig, heartbeatDue, scheduled_jobs,
                   nextJobId, scheduleRunningJobIds, storeVars, ret, turn, engineVars>>

ClientStep(c) == RpcStep(c, requests)

(* The requests (sendRequestUnsafe, handleMessage, rejectPendingRequests).   *)
(* requests[id] is the promise sendRequestUnsafe returned for id: by is what *)
(* settled it ("none" while it is pending), calls counts the calls of its    *)
(* resolve and reject, timer tells whether its timeout is set, and sent      *)
(* tells whether the callback of ws.send has yet to run.                     *)

MaxRequests == 2

(* new Promise((resolve, reject) => ..) *)
NewPromise == [by |-> "none", calls |-> 0, timer |-> TRUE, sent |-> "waiting"]

(* resolve(..) or reject(..): the first call settles the promise, a later    *)
(* call has no effect                                                        *)
settle(r, by) ==
    [r EXCEPT !.calls = @ + 1, !.by = IF @ = "none" THEN by ELSE @]

(* if (waiter?.timer) clearTimeout(waiter.timer), for the waiter of id *)
clearWaiterTimer(c, rs, id) ==
    IF id \in c.pending THEN [rs EXCEPT ![id].timer = FALSE] ELSE rs

(* A slip: the waiters are rejected and left in the map. *)
rejectPendingRequestsKeep(c, rs, by) ==
    [client |-> c,
     requests |-> [i \in 1..Len(rs) |->
                     IF i \in c.pending THEN settle(rs[i], by) ELSE rs[i]]]

(* rejectPendingRequests(err): every entry is deleted, its timer cleared and *)
(* its promise rejected                                                      *)
rejectPendingRequests(c, rs, by) ==
    [client |-> [c EXCEPT !.pending = {}],
     requests |-> [i \in 1..Len(rs) |->
                     IF i \in c.pending
                     THEN settle([rs[i] EXCEPT !.timer = FALSE], by)
                     ELSE rs[i]]]

(* sendRequestUnsafe(method, params) on an open socket: the timer is set,    *)
(* the waiter is put in the map and ws.send is called; ws.send throws (the   *)
(* catch block deletes the waiter and rejects) or takes the payload.         *)
SendRequest(throws) ==
    LET id == client.nextId
        c == [client EXCEPT !.nextId = @ + 1, !.pending = @ \cup {id}]
        rs == Append(requests, NewPromise)
    IN
    /\ client.ws = "open"
    /\ Len(requests) < MaxRequests
    /\ IF throws
       THEN RpcStep([c EXCEPT !.pending = @ \ {id}],
                    [clearWaiterTimer(c, rs, id) EXCEPT
                        ![id] = settle([@ EXCEPT !.sent = "failed"], "send error")])
       ELSE RpcStep(c, rs)

(* the callback given to ws.send runs, with or without an error *)
SendCallback(id, err) ==
    /\ id \in 1..Len(requests)
    /\ requests[id].sent = "waiting"
    /\ IF err
       THEN RpcStep([client EXCEPT !.pending = @ \ {id}],
                    [clearWaiterTimer(client, requests, id) EXCEPT
                        ![id] = settle([@ EXCEPT !.sent = "failed"], "send error")])
       ELSE RpcStep(client, [requests EXCEPT ![id].sent = "done"])

(* handleMessage(raw) for a message with this id and no method: a response,  *)
(* with a result or with an error, whatever the server chose to answer       *)
HandleMessage(id, isError) ==
    /\ client.ws = "open"
    /\ IF id \in client.pending
       THEN RpcStep([client EXCEPT !.pending = @ \ {id}],
                    [clearWaiterTimer(client, requests, id) EXCEPT
                        ![id] = settle(@, IF isError THEN "error response" ELSE "response")])
       ELSE RpcStep(client, requests)

(* the callback of the request's timeout *)
RequestTimeout(id) ==
    /\ id \in 1..Len(requests)
    /\ requests[id].timer
    /\ RpcStep([client EXCEPT !.pending = @ \ {id}],
               [requests EXCEPT ![id] = settle([@ EXCEPT !.timer = FALSE], "timeout")])

(* the 'close' handler attachSocket gave a socket *)
socketClosed(c, rs) ==
    LET lost == rejectPendingRequests([c EXCEPT !.initialized = FALSE, !.ws = "null"], rs,
                                      "socket close")
        told == [lost.client EXCEPT !.emitted = "connection-lost"]
    IN [client |-> IF ~told.stopping THEN scheduleReconnect(told, SocketCloseDelay) ELSE told,
        requests |-> lost.requests]

(* the 'close' handler attachSocket gave the socket *)
SocketClose ==
    /\ client.ws = "open"
    /\ LET r == socketClosed(client, requests) IN RpcStep(r.client, r.requests)

(* the 'close' event of the socket that shutdown() closed reaches the        *)
(* handler attachSocket gave it, whatever socket the client holds by then    *)
StaleSocketClose ==
    /\ client.closing
    /\ LET r == socketClosed([client EXCEPT !.closing = FALSE], requests) IN
       RpcStep(r.client, r.requests)

(* request(): ensureConnected finds no open socket and no connect() under    *)
(* way; the socket it opens is attached ('open' handler of connect)          *)
DemandConnectOpens ==
    /\ client.ws # "open"
    /\ client.round.pc # "connect"
    /\ ClientStep([client EXCEPT !.ws = "open"])

(* the 'exit' handler spawnServer gave the process *)
ServerExit ==
    /\ client.serverProc
    /\ LET gone == [client EXCEPT !.serverProc = FALSE, !.emitted = "server-exit"]
       IN ClientStep(IF ~gone.stopping /\ gone.autoSpawnAppServer
                     THEN scheduleReconnect(gone, SocketCloseDelay) ELSE gone)

(* the callback of the reconnect timer, up to its await *)
ReconnectTimerFires ==
    /\ client.reconnectTimer # 0
    /\ LET fired == [client EXCEPT !.reconnectTimer = 0] IN
       ClientStep(IF fired.stopping \/ fired.reconnectInProgress THEN fired
                  ELSE attemptBegins([fired EXCEPT !.reconnectInProgress = TRUE,
                                                   !.round = [pc |-> "begin",
                                                              delayMs |-> client.reconnectTimer]],
                                     0))

(* connect() resolved: the socket opened and attachSocket took it; initialize() is awaited *)
ConnectOpens ==
    /\ client.round.pc = "connect"
    /\ ClientStep([client EXCEPT !.ws = "open", !.round = [@ EXCEPT !.pc = "initialize"]])

(* connect() rejected: an error, a close or the five seconds' timeout *)
ConnectFails ==
    /\ client.round.pc = "connect"
    /\ ClientStep(attemptFails(client))

(* initialize() resolved *)
InitializeSucceeds ==
    /\ client.round.pc = "initialize"
    /\ client.ws = "open"
    /\ ClientStep(roundSucceeds([client EXCEPT !.initialized = TRUE]))

(* initialize() rejected: the socket closed under the request, or it timed out *)
InitializeFails ==
    /\ client.round.pc = "initialize"
    /\ ClientStep(attemptFails(client))

(* await delay(..) between two iterations is over *)
RetryDelayElapsed ==
    /\ client.round.pc = "delay"
    /\ ClientStep(attemptBegins(client, client.round.attempt + 1))

(* shutdown() *)
Shutdown ==
    /\ ~client.stopping
    /\ LET r == rejectPendingRequests([client EXCEPT !.stopping = TRUE, !.reconnectTimer = 0],
                                      requests, "shutdown")
       IN RpcStep([r.client EXCEPT !.ws = "null", !.serverProc = FALSE,
                                   !.closing = (client.ws = "open")],
                  r.requests)

(* settings.memory.heartbeatHours, 24, in days *)
HeartbeatEveryDays == 1

(* The tables and the engine right after construction (every table empty)   *)
(* and the memory root after MemoryEngine.init().                            *)
InitStore ==
    /\ chats = [c \in Chats |-> NoRow]
    /\ sessionState = {}
    /\ exchanges = <<>>
    /\ facts = {}
    /\ contradictions = {}
    /\ nextFactId = 1
    /\ today = 0
    /\ ret = Void
    /\ turn = [c \in Chats |-> NoRow]
    /\ bi = [pc |-> "idle"]
    /\ rt = [pc |-> "idle"]
    /\ queueByChat = [c \in Chats |-> 0]
    /\ tasks = <<>>
    /\ episodes = <<>>
    /\ open_loops = <<>>
    /\ documents = {}
    /\ files = InitialFiles
    /\ scheduled_jobs = {}
    /\ nextJobId = 1
    /\ scheduleRunningJobIds = {}
    /\ requests = <<>>
    /\ heartbeatDue = HeartbeatEveryDays

(* The store constructed on a fresh database: runMigrations has applied all *)
(* five migrations and returned.                                             *)
Init ==
    /\ InitStore
    /\ client = StartedClient(TRUE)
    /\ schema_migrations = Versions
    /\ schema = SchemaAfter(LastMigration)
    /\ migrationLog = UpTo(LastMigration)
    /\ mig = [pc |-> "open", applied |-> {}]

DecaySteps == {30}

(* The fact store under its API, for any chats and in any order *)
Next ==
    \/ \E c \in Chats : GetChatState(c)
    \/ \E c \in Chats : StartNewSession(c)
    \/ \E c \in Chats, s \in Subjects, p \in Predicates, o \in Objects, k \in Confidences :
          UpsertFact(c, s, p, o, k)
    \/ \E c \in Chats, d \in DaysOldValues, st \in DecaySteps : DecayFactConfidence(c, d, st)
    \/ \E c \in Chats : DetectContradictions(c, ConfidenceThreshold)
    \/ DedupeFacts
    \/ Tick

Spec == Init /\ [][Next]_vars

(* The fact tables alone (chats are only created, sessions do not move) *)
NextFacts ==
    \/ \E c \in Chats : GetChatState(c)
    \/ \E c \in Chats, s \in Subjects, p \in Predicates, o \in Objects, k \in Confidences :
          UpsertFact(c, s, p, o, k)
    \/ \E c \in Chats, d \in DaysOldValues, st \in DecaySteps : DecayFactConfidence(c, d, st)
    \/ \E c \in Chats : DetectContradictions(c, ConfidenceThreshold)
    \/ DedupeFacts
    \/ Tick

SpecFacts == Init /\ [][NextFacts]_vars

-----------------------------------------------------------------------------
(* Claims about the fact store *)

(* The key the claim speaks of, computed from the stored columns. *)
KeyOfRow(r) ==
    <<NormalizePart(r.subject), NormalizePart(r.predicate), NormalizePart(r.object)>>

RowsOfKey(table, chatId, key) ==
    {r \in table : r.chat_id = chatId /\ KeyOfRow(r) = key}

(* C1: in every reachable state each chat holds at most one fact row per     *)
(* trimmed, lower-cased, whitespace-collapsed subject|predicate|object.      *)
C1_FactKeyUnique ==
    \A r \in facts, q \in facts :
        (r.chat_id = q.chat_id /\ KeyOfRow(r) = KeyOfRow(q)) => r = q

(* C1 witness: an upsert has just merged into an existing row while the same *)
(* key is also stored for the other chat.                                    *)
C1_Witness ==
    /\ ret.op = "upsertFact" /\ "updated" \in DOMAIN ret /\ ret.updated
    /\ \E r \in facts, q \in facts :
          r.chat_id # q.chat_id /\ KeyOfRow(r) = KeyOfRow(q) /\ r.id = ret.id

(* C2: a second upsertFact of the same (chat, subject, predicate, object)    *)
(* right after the call that stored it with c1, now with c2 >= c1, is        *)
(* reported as an update, adds no row, and leaves exactly one row for the    *)
(* key, with confidence max(c1, c2).                                         *)
C2_IdempotentUpsert ==
    [][\A c \in Chats, s \in Subjects, p \in Predicates, o \in Objects, k \in Confidences :
         \A r \in facts :
           ( /\ ret.op = "upsertFact" /\ "inserted" \in DOMAIN ret /\ ret.inserted
             /\ r.id = ret.id
             /\ r.chat_id = c /\ r.subject = s /\ r.predicate = p /\ r.object = o
             /\ r.confidence <= k
             /\ UpsertFact(c, s, p, o, k) )
           => ( /\ ret'.updated /\ ~ret'.inserted
                /\ Cardinality(facts') = Cardinality(facts)
                /\ Cardinality(RowsOfKey(facts', c, KeyOfRow(r))) = 1
                /\ \A q \in RowsOfKey(facts', c, KeyOfRow(r)) :
                      q.confidence = Max(r.confidence, k) )
      ]_vars

(* C2 witness: a row first stored with the low confidence has been           *)
(* reasserted at once and now carries the higher one.                        *)
C2_Witness ==
    /\ ret.op = "upsertFact" /\ "updated" \in DOMAIN ret /\ ret.updated
    /\ \E r \in facts : r.id = ret.id /\ r.confidence = 62 /\ Cardinality(facts) = 1

(* C7: a decayFactConfidence call leaves no fact below the floor; a stale    *)
(* fact at c >= floor goes to max(floor, c - step) and one at the floor      *)
(* stays there.                                                              *)
C7_DecayFloor ==
    [][\A c \in Chats, d \in DaysOldValues, st \in DecaySteps :
         DecayFactConfidence(c, d, st) =>
           \A r \in facts : \E q \in facts' :
              /\ q.id = r.id
              /\ q.confidence >= DecayFloor
              /\ (IsStale(r, c, d) /\ r.confidence >= DecayFloor)
                    => q.confidence = Max(DecayFloor, r.confidence - st)
              /\ (r.confidence = DecayFloor => q.confidence = DecayFloor)
      ]_vars

(* C7, as a state invariant: no stored confidence is below the floor. *)
C7_NeverBelowFloor == \A r \in facts : r.confidence >= DecayFloor

(* C7 witness: a stale fact sits exactly at the floor after a decay call. *)
C7_Witness ==
    /\ ret = Void
    /\ \E r \in facts : r.confidence = DecayFloor /\ today - r.last_confirmed_at > 0

(* The groups the claim speaks of: (subject, predicate) over the chat's      *)
(* active facts at or above minConfidence, with their distinct objects.      *)
ClaimGroupObjects(chatId, minConfidence, subject, predicate) ==
    {r.object : r \in {q \in facts :
        /\ q.chat_id = chatId /\ q.active = 1 /\ q.confidence >= minConfidence
        /\ q.subject = subject /\ q.predicate = predicate}}

(* C8: detectContradictions returns exactly one contradiction per group with *)
(* more than one distinct object, listing all of them, and nothing else.     *)
C8_DetectContradictions ==
    [][\A c \in Chats :
         DetectContradictions(c, ConfidenceThreshold) =>
           /\ \A s \in Subjects, p \in Predicates :
                LET objs == ClaimGroupObjects(c, ConfidenceThreshold, s, p)
                    hits == {f \in ret'.found : f.subject = s /\ f.predicate = p}
                IN IF Cardinality(objs) > 1
                   THEN Cardinality(hits) = 1 /\ \A f \in hits : f.objects = objs
                   ELSE hits = {}
           /\ \A f \in ret'.found : f.subject \in Subjects /\ f.predicate \in Predicates
      ]_vars

(* C8 witness: a scan has just returned a contradiction with two objects. *)
C8_Witness ==
    /\ ret.op = "detectContradictions"
    /\ \E f \in ret.found : Cardinality(f.objects) = 2

(* C9: whenever a step lowers the confidence of a stored fact, that step is  *)
(* a decayFactConfidence call.                                               *)
C9_OnlyDecayLowers ==
    [][(\E r \in facts, q \in facts' : q.id = r.id /\ q.confidence < r.confidence)
         => \E c \in Chats, d \in DaysOldValues, st \in DecaySteps :
               DecayFactConfidence(c, d, st)
      ]_vars

(* C9 witness: an upsert has just merged into a row whose stored confidence  *)
(* is none of the values upsertFact is called with, so the reasserted value  *)
(* was lower and the stored one was kept.                                    *)
C9_Witness ==
    /\ ret.op = "upsertFact" /\ "updated" \in DOMAIN ret /\ ret.updated
    /\ \E r \in facts : r.id = ret.id /\ r.confidence \notin Confidences
                          /\ r.confidence > DecayFloor

(* C23: a decayFactConfidence(chat, daysOld, step) keeps every row of the    *)
(* facts table with every field but the confidence as it was; the confidence *)
(* becomes max(0.1, confidence - step) for the chat's active facts last      *)
(* confirmed more than daysOld days ago and stays for every other fact; no   *)
(* other table changes.                                                      *)
C23_DecayChangesOnlyStaleConfidence ==
    [][\A c \in Chats, d \in DaysOldValues, st \in DecaySteps :
          DecayFactConfidence(c, d, st) =>
             /\ Cardinality(facts') = Cardinality(facts)
             /\ \A r \in facts :
                   \E q \in facts' :
                      /\ q = [r EXCEPT !.confidence = q.confidence]
                      /\ q.confidence =
                            IF r.chat_id = c /\ r.active = 1 /\ today - r.last_confirmed_at > d
                            THEN (IF r.confidence - st > DecayFloor
                                  THEN r.confidence - st ELSE DecayFloor)
                            ELSE r.confidence
             /\ UNCHANGED <<chats, sessionState, exchanges, contradictions, nextFactId,
                            episodes, open_loops, documents, files>>]_vars

(* C23 witness: of two facts of one chat stored at 0.62, the one last        *)
(* confirmed on day 0 has decayed to 0.32 and the one confirmed on day 1 has *)
(* not.                                                                      *)
C23_Witness ==
    /\ today = 1
    /\ ret = Void
    /\ \E r, q \in facts :
          /\ r.chat_id = q.chat_id
          /\ r.last_confirmed_at = 0 /\ r.confidence = 32
          /\ q.last_confirmed_at = 1 /\ q.confidence = 62

SoleForKey(r) == \A q \in facts : (q.chat_id = r.chat_id /\ q.fact_key = r.fact_key) => q = r

(* C24: no step removes a fact that is the only row of its (chat_id,         *)
(* fact_key), and a dedupeFacts leaves the facts table as it was.            *)
C24_NoSoleFactDeleted ==
    [][/\ \A r \in facts : SoleForKey(r) => \E q \in facts' : q.id = r.id
       /\ DedupeFacts => facts' = facts]_vars

(* C24 witness: a chat holds two facts on one subject and predicate, under   *)
(* two keys, with different confidences, and the last call returned nothing. *)
C24_Witness ==
    /\ ret = Void
    /\ \E r, q \in facts :
          /\ r.chat_id = q.chat_id /\ r.subject = q.subject /\ r.predicate = q.predicate
          /\ r.fact_key # q.fact_key
          /\ r.confidence > q.confidence


-----------------------------------------------------------------------------
(* Sessions: turns capture the chat row, /newsession may arrive in between *)

UserTexts == { <<"u">> }
AssistantTexts == { <<"a">> }

NextSession ==
    \/ \E c \in Chats : GetChatState(c)
    \/ \E c \in Chats : PrepareTurn(c)
    \/ \E c \in Chats, t \in ThreadIds : SetThreadId(c, t)
    \/ \E c \in Chats, u \in UserTexts, a \in AssistantTexts : RecordExchange(c, u, a)
    \/ \E c \in Chats : StartNewSession(c)

SpecSession == Init /\ [][NextSession]_vars

(* C6: startNewSession(chat) moves sessionNo up by exactly one, clears the   *)
(* thread, the new session's turn count reads 0, and the turn counts and     *)
(* exchanges of every earlier session are what they were.                    *)
C6_SessionReset ==
    [][\A c \in Chats :
         StartNewSession(c) =>
           LET old == IF chats[c] = NoRow THEN 1 ELSE chats[c].session_no IN
           /\ chats'[c].session_no = old + 1
           /\ chats'[c].thread_id = NullThread
           /\ TurnCountOf(sessionState', c, old + 1) = 0
           /\ \A c2 \in Chats, n \in 1..old :
                /\ TurnCountOf(sessionState', c2, n) = TurnCountOf(sessionState, c2, n)
                /\ SessionExchanges(exchanges', c2, n) = SessionExchanges(exchanges, c2, n)
      ]_vars

(* C6 witness: a session with recorded turns and a thread has just been      *)
(* left behind by startNewSession.                                           *)
C6_Witness ==
    /\ ret.op = "startNewSession"
    /\ \E c \in Chats :
         /\ chats[c] = ret.state
         /\ chats[c].session_no = 2
         /\ TurnCountOf(sessionState, c, 1) > 0
         /\ Len(SessionExchanges(exchanges, c, 1)) > 0

(* C15: for every chat and session, the turn count of the session state is   *)
(* the number of exchanges stored for that session.                          *)
C15_TurnCountIsExchangeCount ==
    \A c \in Chats, n \in 1..MaxSession :
        TurnCountOf(sessionState, c, n) = Len(SessionExchanges(exchanges, c, n))

(* C15 witness: a chat has two exchanges in its first session and one in its *)
(* second.                                                                   *)
C15_Witness ==
    \E c \in Chats :
        /\ Len(SessionExchanges(exchanges, c, 1)) = 2
        /\ Len(SessionExchanges(exchanges, c, 2)) = 1
        /\ TurnCountOf(sessionState, c, 2) = 1

-----------------------------------------------------------------------------
(* MemoryEngine.buildInjection  (src/src/dashboard.js)                       *)
(* A text is a sequence of lines and a line a sequence of words, so that the *)
(* word count of estimateTokens is computed from what is rendered.           *)

MaxSectionItems == 2

HeaderFacts == <<"Known", "stable", "facts:">>
HeaderEpisodes == <<"Relevant", "past", "decisions", "/", "episodes:">>
HeaderLoops == <<"Open", "loops", "/", "TODOs:">>
NoneLine == <<"-", "(none)">>
EmptyLine == <<>>

RECURSIVE WordCount(_)
WordCount(lines) ==
    IF lines = <<>> THEN 0 ELSE Len(Head(lines)) + WordCount(Tail(lines))

(* Math.ceil(words * 1.3) *)
estimateTokens(lines) == (13 * WordCount(lines) + 9) \div 10

render(block) ==
    <<HeaderFacts>>
    \o (IF block.stableFacts # <<>> THEN block.stableFacts ELSE <<NoneLine>>)
    \o <<EmptyLine, HeaderEpisodes>>
    \o (IF block.episodes # <<>> THEN block.episodes ELSE <<NoneLine>>)
    \o <<EmptyLine, HeaderLoops>>
    \o (IF block.loops # <<>> THEN block.loops ELSE <<NoneLine>>)

Pop(seq) == SubSeq(seq, 1, Len(seq) - 1)

(* A slip in the loop: only open loops are ever dropped. *)
TrimStepLoopsOnly(block) ==
    IF block.loops # <<>> THEN [block EXCEPT !.loops = Pop(@)] ELSE block

(* A slip: stable facts are popped before episodes. *)
TrimStepFactsFirst(block) ==
    IF block.loops # <<>> THEN [block EXCEPT !.loops = Pop(@)]
    ELSE IF Len(block.stableFacts) > 1 THEN [block EXCEPT !.stableFacts = Pop(@)]
    ELSE IF block.episodes # <<>> THEN [block EXCEPT !.episodes = Pop(@)]
    ELSE block

(* One pass of the while body; the block itself when the body breaks. *)
TrimStep(block) ==
    IF block.loops # <<>> THEN [block EXCEPT !.loops = Pop(@)]
    ELSE IF block.episodes # <<>> THEN [block EXCEPT !.episodes = Pop(@)]
    ELSE IF Len(block.stableFacts) > 1 THEN [block EXCEPT !.stableFacts = Pop(@)]
    ELSE block

(* buildInjection as a function, for its callers *)
RECURSIVE buildInjection(_, _)
buildInjection(block, maxInjectionTokens) ==
    IF estimateTokens(render(block)) > maxInjectionTokens /\ TrimStep(block) # block
    THEN buildInjection(TrimStep(block), maxInjectionTokens)
    ELSE render(block)

(* What retrieve can hand over: lines of its three capped sections *)
FactLines == { <<"-", "user", "timezone", "UTC+2">>,
               <<"-", "project:apollo", "uses_stack", "TypeScript", "+", "React">> }
EpisodeLines == { <<"-", "Topic:", "atlas.", "Decision/context:", "We", "chose", "Next.js">> }
LoopLines == { <<"-", "TODO:", "follow", "up", "on", "deploy">> }

SeqsUpTo(S, n) == UNION {[1..k -> S] : k \in 0..n}

SectionInputs ==
    [stableFacts : SeqsUpTo(FactLines, MaxSectionItems),
     episodes : SeqsUpTo(EpisodeLines, MaxSectionItems),
     loops : SeqsUpTo(LoopLines, MaxSectionItems)]

(* config.maxInjectionTokens: MEMORY_MAX_INJECTION_TOKENS, any integer; 360 by default *)
Budgets == {20, 30, 40, 360}

BuildInjectionCall(sections, maxInjectionTokens) ==
    /\ bi.pc \in {"idle", "done"}
    /\ bi' = [pc |-> "while", sections |-> sections, max |-> maxInjectionTokens,
              block |-> sections]
    /\ UNCHANGED <<hostVars, storeVars, files, ret, turn, rt, queueVars>>

(* while (estimateTokens(render()) > max) { pop ...; continue } *)
BuildInjectionTrim ==
    /\ bi.pc = "while"
    /\ estimateTokens(render(bi.block)) > bi.max
    /\ TrimStep(bi.block) # bi.block
    /\ bi' = [bi EXCEPT !.block = TrimStep(bi.block)]
    /\ UNCHANGED <<hostVars, storeVars, files, ret, turn, rt, queueVars>>

(* the loop ends (under budget, or break) and render() is returned *)
BuildInjectionReturn ==
    /\ bi.pc = "while"
    /\ \/ estimateTokens(render(bi.block)) <= bi.max
       \/ TrimStep(bi.block) = bi.block
    /\ bi' = [pc |-> "done", sections |-> bi.sections, max |-> bi.max,
              block |-> bi.block, out |-> render(bi.block)]
    /\ UNCHANGED <<hostVars, storeVars, files, ret, turn, rt, queueVars>>

NextInject ==
    \/ \E sec \in SectionInputs, m \in Budgets : BuildInjectionCall(sec, m)
    \/ BuildInjectionTrim
    \/ BuildInjectionReturn

SpecInject == Init /\ [][NextInject]_vars

MinimalBlock(sections) ==
    [stableFacts |-> SubSeq(sections.stableFacts, 1,
                            IF Len(sections.stableFacts) >= 1 THEN 1 ELSE 0),
     episodes |-> <<>>, loops |-> <<>>]

C13_TrimOrder ==
    [][bi.pc = "while" =>
         /\ Len(bi'.block.episodes) < Len(bi.block.episodes) => bi.block.loops = <<>>
         /\ Len(bi'.block.stableFacts) < Len(bi.block.stableFacts)
               => (bi.block.episodes = <<>> /\ bi.block.loops = <<>>)
         /\ bi.block.stableFacts # <<>> => bi'.block.stableFacts # <<>>]_vars

(* C13 witness: a block with two of each was trimmed down to its first       *)
(* stable fact: the open loops went, then the episodes, then a fact.         *)
C13_Witness ==
    /\ bi.pc = "done"
    /\ Len(bi.sections.loops) = 2 /\ Len(bi.sections.episodes) = 2
    /\ Len(bi.sections.stableFacts) = 2
    /\ bi.block = [stableFacts |-> <<bi.sections.stableFacts[1]>>, episodes |-> <<>>,
                   loops |-> <<>>]

-----------------------------------------------------------------------------
(* MemoryEngine.retrieve  (src/src/dashboard.js)                             *)
(* Scores are in thousandths, confidences in hundredths.                     *)

MaxStableFacts == 8
MaxEpisodes == 4
MaxOpenLoops == 6
MaxInjectionTokens == 360

(* The chat's memory rows the seven searches can return.  overlap and        *)
(* recency are overlapScore(parsed.tokens, text) and recencyScore of the     *)
(* row for the query at hand, in thousandths; vector_score and fts_rank are  *)
(* what the vector and FTS searches attach to a row.                         *)
MemoryRows ==
    { [type |-> "fact", id |-> 1, stored |-> 72, text |-> <<"user", "timezone", "UTC+2">>,
       overlap |-> 500, recency |-> 900, vector_score |-> 0, fts_rank |-> -1200],
      [type |-> "fact", id |-> 2, stored |-> 40, text |-> <<"user", "uses_tool", "vim">>,
       overlap |-> 1000, recency |-> 300, vector_score |-> 0, fts_rank |-> -800],
      [type |-> "episode", id |-> 1, stored |-> 85, text |-> <<"Topic:", "atlas.">>,
       overlap |-> 0, recency |-> 500, vector_score |-> 310, fts_rank |-> -500],
      [type |-> "episode", id |-> 2, stored |-> 45, text |-> <<"Topic:", "deploy.">>,
       overlap |-> 1000, recency |-> 1000, vector_score |-> 700, fts_rank |-> -2000],
      [type |-> "loop", id |-> 1, stored |-> 70, text |-> <<"TODO:", "rotate", "keys">>,
       overlap |-> 0, recency |-> 800, vector_score |-> 0, fts_rank |-> 0],
      [type |-> "loop", id |-> 2, stored |-> 30, text |-> <<"TODO:", "ship", "v2">>,
       overlap |-> 500, recency |-> 1000, vector_score |-> 0, fts_rank |-> 0],
      [type |-> "document", id |-> 1, stored |-> 0, text |-> <<"memory", "notes">>,
       overlap |-> 500, recency |-> 200, vector_score |-> 0, fts_rank |-> -900] }

RowsOfType(t) == {r \in MemoryRows : r.type = t}

(* a search result: some of the rows, here in id order, tagged with type and source *)
RECURSIVE RowsToSeq(_)
RowsToSeq(S) ==
    IF S = {} THEN <<>>
    ELSE LET r == CHOOSE x \in S : \A y \in S : x.id <= y.id
         IN <<r>> \o RowsToSeq(S \ {r})

Tagged(rows, source) ==
    [i \in 1..Len(rows) |->
        [type |-> rows[i].type, source |-> source, id |-> rows[i].id,
         stored |-> rows[i].stored, text |-> rows[i].text, overlap |-> rows[i].overlap,
         recency |-> rows[i].recency, vector_score |-> rows[i].vector_score,
         fts_rank |-> rows[i].fts_rank]]

(* Number(x || dflt): a missing or zero value takes the default *)
OrDefault(x, dflt) == IF x = 0 THEN dflt ELSE x

candidateConfidence(c) ==
    IF c.type = "fact" THEN OrDefault(c.stored, 0)
    ELSE IF c.type = "episode" THEN OrDefault(c.stored, 60)
    ELSE IF c.type = "loop" THEN OrDefault(c.stored, 70)
    ELSE 55

sourceScore(c) ==
    IF c.source = "exact" THEN 950
    ELSE IF c.source = "vector" THEN 600 + c.vector_score
    ELSE IF c.source = "keyword" THEN 450 + (1000000 \div (1000 + Max(0, c.fts_rank)))
    ELSE 500

candidateScore(c) ==
    LET confidence == candidateConfidence(c)
        base == sourceScore(c) + ((c.overlap * 8) \div 10) + ((c.recency * 35) \div 100)
                + ((confidence * 55) \div 10)
    IN IF confidence < ConfidenceThreshold /\ c.type # "document" THEN base - 350 ELSE base

CandidateKey(c) == <<c.type, c.id>>

MergedEntry(c) ==
    [type |-> c.type, source |-> c.source, id |-> c.id, text |-> c.text,
     confidence |-> candidateConfidence(c), score |-> candidateScore(c)]

(* A slip: the first instance of a key is kept whatever the later ones score. *)
RECURSIVE mergeByKeyFirst(_, _)
mergeByKeyFirst(all, byKey) ==
    IF all = <<>> THEN byKey
    ELSE LET c == Head(all)
             at == {i \in 1..Len(byKey) : CandidateKey(byKey[i]) = CandidateKey(c)}
         IN IF at = {} THEN mergeByKeyFirst(Tail(all), Append(byKey, MergedEntry(c)))
            ELSE mergeByKeyFirst(Tail(all), byKey)

(* for (const c of all) { ... if (!prev || score > prev.score) byKey.set(key, ...) } *)
RECURSIVE mergeByKey(_, _)
mergeByKey(all, byKey) ==
    IF all = <<>> THEN byKey
    ELSE LET c == Head(all)
             e == MergedEntry(c)
             at == {i \in 1..Len(byKey) : CandidateKey(byKey[i]) = CandidateKey(c)}
         IN IF at = {} THEN mergeByKey(Tail(all), Append(byKey, e))
            ELSE LET i == CHOOSE j \in at : TRUE
                 IN IF e.score > byKey[i].score
                    THEN mergeByKey(Tail(all), [byKey EXCEPT ![i] = e])
                    ELSE mergeByKey(Tail(all), byKey)

(* Array.prototype.sort((a, b) => b.score - a.score): stable, descending *)
RECURSIVE InsertByScore(_, _)
InsertByScore(sorted, e) ==
    IF sorted = <<>> THEN <<e>>
    ELSE IF Head(sorted).score >= e.score
         THEN <<Head(sorted)>> \o InsertByScore(Tail(sorted), e)
         ELSE <<e>> \o sorted

RECURSIVE sortByScore(_)
sortByScore(entries) ==
    IF entries = <<>> THEN <<>>
    ELSE InsertByScore(sortByScore(SubSeq(entries, 1, Len(entries) - 1)),
                       entries[Len(entries)])

(* A slip: every candidate, not some candidate, has to reach the threshold. *)
hasAboveThresholdEvery(ranked) ==
    \A i \in 1..Len(ranked) : ranked[i].confidence >= ConfidenceThreshold

hasAboveThreshold(ranked) ==
    \E i \in 1..Len(ranked) : ranked[i].confidence >= ConfidenceThreshold

KeepAfterThreshold(x) == x.type = "document" \/ x.confidence >= ConfidenceThreshold

(* A slip: the filter is applied whether or not a candidate reaches the threshold. *)
filterRankedAlways(ranked) == SelectSeq(ranked, KeepAfterThreshold)

filterRanked(ranked) ==
    IF hasAboveThreshold(ranked) THEN SelectSeq(ranked, KeepAfterThreshold) ELSE ranked

IsFactEntry(x) == x.type = "fact"
IsEpisodeOrDocument(x) == x.type = "episode" \/ x.type = "document"
IsLoopEntry(x) == x.type = "loop"

(* `- ${text}`; sanitizeOneLine leaves these one-line texts under its cut as they are *)
LineOf(x) == <<"-">> \o x.text

LinesOf(entries) == [i \in 1..Len(entries) |-> LineOf(entries[i])]

(* the three sections under a configured config.maxStableFacts *)
sectionsWithin(ranked, maxStableFacts) ==
    [stableFacts |-> LinesOf(Slice(SelectSeq(ranked, IsFactEntry), maxStableFacts)),
     episodes |-> LinesOf(Slice(SelectSeq(ranked, IsEpisodeOrDocument), MaxEpisodes)),
     loops |-> LinesOf(Slice(SelectSeq(ranked, IsLoopEntry), MaxOpenLoops))]

sectionsOf(ranked) == sectionsWithin(ranked, MaxStableFacts)

Retrieve(vectorEpisodes, keywordFacts, keywordEpisodes, keywordDocuments, exactFacts, exactEpisodes, openLoops) ==
    /\ rt.pc = "idle"
    /\ LET all == Tagged(RowsToSeq(vectorEpisodes), "vector")
                  \o Tagged(RowsToSeq(keywordFacts), "keyword")
                  \o Tagged(RowsToSeq(keywordEpisodes), "keyword")
                  \o Tagged(RowsToSeq(keywordDocuments), "keyword")
                  \o Tagged(RowsToSeq(exactFacts), "exact")
                  \o Tagged(RowsToSeq(exactEpisodes), "exact")
                  \o Tagged(RowsToSeq(openLoops), "open_loop")
           ranked == filterRanked(sortByScore(mergeByKey(all, <<>>)))
           sections == sectionsOf(ranked)
       IN rt' = [pc |-> "done", all |-> all, ranked |-> ranked, sections |-> sections,
                 injection |-> buildInjection(sections, MaxInjectionTokens)]
    /\ UNCHANGED <<hostVars, storeVars, files, ret, turn, bi, queueVars>>

NextRetrieve ==
    \E ve \in SUBSET RowsOfType("episode"), kf \in SUBSET RowsOfType("fact"),
       ke \in SUBSET RowsOfType("episode"), kd \in SUBSET RowsOfType("document"),
       xf \in SUBSET RowsOfType("fact"), xe \in SUBSET RowsOfType("episode"),
       ol \in SUBSET RowsOfType("loop") :
        Retrieve(ve, kf, ke, kd, xf, xe, ol)

SpecRetrieve == Init /\ [][NextRetrieve]_vars

SectionLines(sections) ==
    {sections.stableFacts[i] : i \in 1..Len(sections.stableFacts)}
    \cup {sections.episodes[i] : i \in 1..Len(sections.episodes)}
    \cup {sections.loops[i] : i \in 1..Len(sections.loops)}

(* the stored confidence (salience for an episode) of a returned row *)
BelowThreshold(c) == c.type # "document" /\ c.stored < ConfidenceThreshold

(* C5: when some merged candidate reaches the confidence threshold, no fact, *)
(* episode or open loop below it is in ranked or in a section, and every     *)
(* document candidate is still in ranked.                                    *)
C5_ThresholdFilter ==
    (rt.pc = "done"
     /\ \E i \in 1..Len(rt.all) : candidateConfidence(rt.all[i]) >= ConfidenceThreshold)
    => /\ \A i \in 1..Len(rt.all) :
            BelowThreshold(rt.all[i]) =>
                /\ \A j \in 1..Len(rt.ranked) :
                      CandidateKey(rt.ranked[j]) # CandidateKey(rt.all[i])
                /\ LineOf(rt.all[i]) \notin SectionLines(rt.sections)
       /\ \A i \in 1..Len(rt.all) :
            rt.all[i].type = "document" =>
                \E j \in 1..Len(rt.ranked) :
                    CandidateKey(rt.ranked[j]) = CandidateKey(rt.all[i])

(* C5 witness: the searches returned a fact above and a fact and a loop      *)
(* below the threshold, and a document; the document is in ranked.           *)
C5_Witness ==
    /\ rt.pc = "done"
    /\ \E i \in 1..Len(rt.all) : rt.all[i].type = "fact" /\ rt.all[i].stored >= ConfidenceThreshold
    /\ \E i \in 1..Len(rt.all) : rt.all[i].type = "fact" /\ BelowThreshold(rt.all[i])
    /\ \E i \in 1..Len(rt.all) : rt.all[i].type = "loop" /\ BelowThreshold(rt.all[i])
    /\ \E j \in 1..Len(rt.ranked) : rt.ranked[j].type = "document"
    /\ Len(rt.ranked) < Len(rt.all)

RetrievedFactIds == {rt.all[i].id : i \in {j \in 1..Len(rt.all) : rt.all[j].type = "fact"}}

InstanceScores(all, key) ==
    {candidateScore(all[i]) : i \in {j \in 1..Len(all) : CandidateKey(all[j]) = key}}

(* C22: ranked holds at most one entry per (type, id), and the score (and    *)
(* source) of an entry is that of the highest-scoring instance of its item   *)
(* among the candidates of the seven searches.                               *)
C22_OneEntryPerKeyAtBestScore ==
    rt.pc = "done" =>
        /\ \A i, j \in 1..Len(rt.ranked) :
              CandidateKey(rt.ranked[i]) = CandidateKey(rt.ranked[j]) => i = j
        /\ \A j \in 1..Len(rt.ranked) :
              /\ \A s \in InstanceScores(rt.all, CandidateKey(rt.ranked[j])) :
                    rt.ranked[j].score >= s
              /\ \E i \in 1..Len(rt.all) :
                    /\ CandidateKey(rt.all[i]) = CandidateKey(rt.ranked[j])
                    /\ rt.all[i].source = rt.ranked[j].source
                    /\ candidateScore(rt.all[i]) = rt.ranked[j].score

(* C22 witness: the vector, keyword and exact searches all returned the same *)
(* episode; ranked holds it once, as the keyword instance, which was neither *)
(* the first nor the last of the three and scores highest.                   *)
C22_Witness ==
    /\ rt.pc = "done"
    /\ \E j \in 1..Len(rt.ranked) :
          /\ rt.ranked[j].type = "episode"
          /\ rt.ranked[j].source = "keyword"
          /\ Cardinality({i \in 1..Len(rt.all) :
                CandidateKey(rt.all[i]) = CandidateKey(rt.ranked[j])}) = 3
          /\ Cardinality(InstanceScores(rt.all, CandidateKey(rt.ranked[j]))) = 3

-----------------------------------------------------------------------------
(* MemoryStore: episodes, open loops, documents and the reads the pipeline   *)
(* makes  (src/src/db.js).  Each operator takes the table and gives the      *)
(* table after the call.                                                     *)

NullValue == "null"

(* ORDER BY k1 DESC, k2 DESC over rows [k1, k2, row]; rows equal in both     *)
(* keep their order (rowid order).                                           *)
RECURSIVE InsertDesc(_, _)
InsertDesc(sorted, e) ==
    IF sorted = <<>> THEN <<e>>
    ELSE IF \/ e.k1 > Head(sorted).k1
            \/ e.k1 = Head(sorted).k1 /\ e.k2 > Head(sorted).k2
         THEN <<e>> \o sorted
         ELSE <<Head(sorted)>> \o InsertDesc(Tail(sorted), e)

RECURSIVE InsertEachDesc(_, _)
InsertEachDesc(sorted, keyed) ==
    IF keyed = <<>> THEN sorted
    ELSE InsertEachDesc(InsertDesc(sorted, Head(keyed)), Tail(keyed))

OrderByDesc(keyed) ==
    LET sorted == InsertEachDesc(<<>>, keyed) IN
    [i \in 1..Len(sorted) |-> sorted[i].row]

(* the rows of a table kept as a set, in id order *)
RECURSIVE RowsById(_)
RowsById(rows) ==
    IF rows = {} THEN <<>>
    ELSE LET r == CHOOSE x \in rows : \A y \in rows : x.id <= y.id IN
         <<r>> \o RowsById(rows \ {r})

(* getTopFacts(chatId, limit): stmts.topFacts *)
getTopFacts(fs, chatId, limit) ==
    LET rows == RowsById({r \in fs : r.chat_id = chatId /\ r.active = 1}) IN
    Slice(OrderByDesc([i \in 1..Len(rows) |->
              [k1 |-> rows[i].confidence, k2 |-> rows[i].last_confirmed_at,
               row |-> rows[i]]]), limit)

(* getRecentExchanges(chatId, limit, sessionNo): newest first *)
getRecentExchanges(ex, chatId, limit, sessionNo) ==
    LET rows == SessionExchanges(ex, chatId, sessionNo) IN
    Slice([i \in 1..Len(rows) |-> rows[Len(rows) + 1 - i]], limit)

Reverse(seq) == [i \in 1..Len(seq) |-> seq[Len(seq) + 1 - i]]

(* insertEpisode({chatId, summary, entities, tags, salience, timeRangeStart, *)
(* timeRangeEnd, sourceFiles, embedding}); the embedding column, a hash      *)
(* vector of the summary, is not kept.                                       *)
insertEpisode(eps, chatId, ep, timestamp, sourceFiles, now) ==
    Append(eps, [id |-> Len(eps) + 1, chat_id |-> chatId,
                 summary |-> ep.summary,
                 entities |-> Unique(ep.entities),
                 tags |-> Unique(ep.tags),
                 salience |-> ep.salience,
                 time_range_start |-> timestamp, time_range_end |-> timestamp,
                 source_files |-> Unique(sourceFiles),
                 created_at |-> now])

OpenLoopHits(loops, chatId, text, status) ==
    {i \in 1..Len(loops) :
        loops[i].chat_id = chatId /\ loops[i].text = text /\ loops[i].status = status}

(* A slip in the DO UPDATE clause: confidence = excluded.confidence *)
upsertOpenLoopOverwrite(loops, chatId, text, tags, confidence, sourceFile, now) ==
    LET hit == OpenLoopHits(loops, chatId, text, "open") IN
    IF hit = {}
    THEN Append(loops, [id |-> Len(loops) + 1, chat_id |-> chatId, text |-> text,
                        tags |-> Unique(tags), confidence |-> confidence,
                        status |-> "open", created_at |-> now,
                        resolved_at |-> NullValue, source_file |-> sourceFile])
    ELSE [i \in 1..Len(loops) |->
            IF i \in hit
            THEN [loops[i] EXCEPT !.tags = Unique(tags),
                                  !.confidence = confidence,
                                  !.created_at = now,
                                  !.source_file = sourceFile]
            ELSE loops[i]]

(* upsertOpenLoop: INSERT .. 'open' .. ON CONFLICT(chat_id, text, status) DO *)
(* UPDATE SET tags_json, confidence = MAX(..), created_at, source_file       *)
upsertOpenLoop(loops, chatId, text, tags, confidence, sourceFile, now) ==
    LET hit == OpenLoopHits(loops, chatId, text, "open") IN
    IF hit = {}
    THEN Append(loops, [id |-> Len(loops) + 1, chat_id |-> chatId, text |-> text,
                        tags |-> Unique(tags), confidence |-> confidence,
                        status |-> "open", created_at |-> now,
                        resolved_at |-> NullValue, source_file |-> sourceFile])
    ELSE [i \in 1..Len(loops) |->
            IF i \in hit
            THEN [loops[i] EXCEPT !.tags = Unique(tags),
                                  !.confidence = Max(@, confidence),
                                  !.created_at = now,
                                  !.source_file = sourceFile]
            ELSE loops[i]]

(* resolveOpenLoop: UPDATE open_loops SET status = 'resolved', resolved_at   *)
(* WHERE chat_id = ? AND status = 'open' AND text = ?.  The table is         *)
(* UNIQUE(chat_id, text, status): the UPDATE throws, and changes nothing,    *)
(* when the chat already holds a resolved row with this text.                *)
resolveOpenLoop(loops, chatId, text, now) ==
    LET hit == OpenLoopHits(loops, chatId, text, "open") IN
    IF hit # {} /\ OpenLoopHits(loops, chatId, text, "resolved") # {}
    THEN [open_loops |-> loops, error |-> TRUE]
    ELSE [open_loops |-> [i \in 1..Len(loops) |->
                            IF i \in hit
                            THEN [loops[i] EXCEPT !.status = "resolved",
                                                  !.resolved_at = now]
                            ELSE loops[i]],
          error |-> FALSE]

(* getOpenLoops(chatId, limit) with no query text: stmts.listOpenLoops *)
getOpenLoops(loops, chatId, limit) ==
    LET rows == SelectSeq(loops, LAMBDA r : r.chat_id = chatId /\ r.status = "open") IN
    Slice(OrderByDesc([i \in 1..Len(rows) |->
              [k1 |-> rows[i].confidence, k2 |-> rows[i].created_at, row |-> rows[i]]]),
          limit)

(* A slip in the statement: INSERT OR IGNORE, the row of an earlier indexing *)
(* of (chat_id, path, chunk_index) is kept as it is.                         *)
upsertDocumentChunkKeep(docs, chatId, docPath, chunkIndex, text, tags, now) ==
    IF \E d \in docs : d.chat_id = chatId /\ d.path = docPath /\ d.chunk_index = chunkIndex
    THEN docs
    ELSE docs \cup {[chat_id |-> chatId, path |-> docPath, chunk_index |-> chunkIndex,
                     text |-> text, tags |-> Unique(tags), created_at |-> now]}

(* upsertDocumentChunk: INSERT .. ON CONFLICT(chat_id, path, chunk_index) DO *)
(* UPDATE SET text, embedding_json, created_at, tags_json                    *)
upsertDocumentChunk(docs, chatId, docPath, chunkIndex, text, tags, now) ==
    {d \in docs : ~(d.chat_id = chatId /\ d.path = docPath /\ d.chunk_index = chunkIndex)}
    \cup {[chat_id |-> chatId, path |-> docPath, chunk_index |-> chunkIndex,
           text |-> text, tags |-> Unique(tags), created_at |-> now]}

-----------------------------------------------------------------------------
(* MemoryEngine: the retain / reflect / index pipeline (src/src/dashboard.js) *)

(* Program constants (src/src/config.js) *)
SessionSummaryEveryTurns == 4
MaxSessionSummaryLines == 320
MaxFactsPerRetain == 10
MaxEpisodesPerRetain == 3
CuratedMinConfidence == 75
MaxMemoryLines == 300
ChunkSize == 900
ChunkOverlap == 140

(* buildWorkingMemory(userPrompt) *)
buildWorkingMemory(userPrompt) ==
    LET \* /[.!?\n]/
        RxGoalSplit ==
            Chr({".", "!", "?", "\n"})
        \* /\b(?:must|never|always|only)\b\s+([^.!?]{6,120})/gi
        RxConstraint ==
            Cat(<<WordB, Alt(<<Lit(<<"m", "u", "s", "t">>), Lit(<<"n", "e", "v", "e",
    "r">>), Lit(<<"a", "l", "w", "a", "y", "s">>), Lit(<<"o", "n", "l",
    "y">>)>>), WordB, AtLeast(Chr(Space), 1), Grp(1, Between(NotChr({".",
    "!", "?"}), 6, 120))>>)
        \* /assuming|assume/i
        RxAssume ==
            Alt(<<Lit(<<"a", "s", "s", "u", "m", "i", "n", "g">>), Lit(<<"a", "s", "s",
    "u", "m", "e">>)>>)
        \* /\b(build|implement|add|create|setup|fix|refactor)\b/i
        RxPlanVerb ==
            Cat(<<WordB, Grp(1, Alt(<<Lit(<<"b", "u", "i", "l", "d">>), Lit(<<"i", "m",
    "p", "l", "e", "m", "e", "n", "t">>), Lit(<<"a", "d", "d">>), Lit(<<"c",
    "r", "e", "a", "t", "e">>), Lit(<<"s", "e", "t", "u", "p">>), Lit(<<"f",
    "i", "x">>), Lit(<<"r", "e", "f", "a", "c", "t", "o", "r">>)>>)),
    WordB>>)
        text == userPrompt
        piece == FirstWhere(Split(RxGoalSplit, FALSE, text, 0), LAMBDA x : Trim(x) # <<>>)
        goal == sanitizeOneLine(IF piece.found THEN piece.value ELSE text, 180)
        ms == MatchAll(RxConstraint, TRUE, text, 0)
    IN [currentGoal |-> OrElse(goal, <<"H", "a", "n", "d", "l", "e", " ", "u", "s", "e", "r", " ", "r", "e", "q",
    "u", "e", "s", "t", " ", "a", "c", "c", "u", "r", "a", "t", "e", "l",
    "y", ".">>),
        plan |-> IF Test(RxPlanVerb, TRUE, text)
                 THEN << <<"I", "n", "t", "e", "r", "p", "r", "e", "t", " ", "r", "e", "q", "u", "e",
    "s", "t", " ", "a", "n", "d", " ", "i", "m", "p", "l", "e", "m", "e",
    "n", "t", " ", "c", "o", "n", "c", "r", "e", "t", "e", " ", "c", "o",
    "d", "e", " ", "c", "h", "a", "n", "g", "e", "s", ".">>,
                         <<"V", "a", "l", "i", "d", "a", "t", "e", " ", "w", "i", "t", "h", " ", "c",
    "h", "e", "c", "k", "s", "/", "t", "e", "s", "t", "s", " ", "b", "e",
    "f", "o", "r", "e", " ", "r", "e", "s", "p", "o", "n", "d", "i", "n",
    "g", ".">> >>
                 ELSE <<>>,
        assumptions |-> IF Test(RxAssume, TRUE, text)
                        THEN << sanitizeOneLine(text, 140) >> ELSE <<>>,
        activeConstraints |->
            [i \in 1..Len(ms) |-> sanitizeOneLine(Whole(text, ms[i]), 140)],
        toolResultsSummary |-> <<>>]

(* capLines(lines, maxLines) *)
capLines(lines, maxLines) ==
    IF Len(lines) <= maxLines THEN lines
    ELSE SubSeq(lines, Len(lines) - maxLines + 1, Len(lines))

(* updateSessionSummary(sessionSummaryPath, turnEntry) *)
updateSessionSummary(fs, sessionSummaryPath, turnEntry) ==
    LET existing == readText(fs, sessionSummaryPath,
                             <<"#", " ", "S", "e", "s", "s", "i", "o", "n", " ", "S", "u", "m", "m", "a",
    "r", "y", "\n", "\n", "#", "#", " ", "R", "o", "l", "l", "i", "n", "g",
    " ", "N", "o", "t", "e", "s", "\n">>)
        lines == Append(Split(Lit(Newline), FALSE, existing, 0), turnEntry)
        capped == capLines(lines, MaxSessionSummaryLines)
    IN writeText(fs, sessionSummaryPath, Join(capped, Newline) \o Newline)

(* byKey.set(key, value) of a Map kept as a list of [key, value]: a key that *)
(* is present keeps its place.                                               *)
MapSet(byKey, key, value) ==
    IF \E i \in 1..Len(byKey) : byKey[i].key = key
    THEN [i \in 1..Len(byKey) |->
            IF byKey[i].key = key THEN [key |-> key, value |-> value] ELSE byKey[i]]
    ELSE Append(byKey, [key |-> key, value |-> value])

RECURSIVE MapSetEach(_, _)
MapSetEach(byKey, entries) ==
    IF entries = <<>> THEN byKey
    ELSE MapSetEach(MapSet(byKey, Head(entries).key, Head(entries).value), Tail(entries))

(* updateSessionKeyFacts(sessionFactsPath, facts, timestamp); the file is    *)
(* the one ensureSessionFiles wrote earlier in the same call.                *)
updateSessionKeyFacts(fs, sessionFactsPath, cands, timestamp) ==
    LET payload == fs[sessionFactsPath].json
        existing == payload.facts
        old == [i \in 1..Len(existing) |->
                   [key |-> FactDedupeKey(existing[i]), value |-> existing[i]]]
        new == [i \in 1..Len(cands) |->
                   [key |-> FactDedupeKey(cands[i]),
                    value |-> [subject |-> cands[i].subject,
                               predicate |-> cands[i].predicate,
                               object |-> cands[i].object,
                               confidence |-> cands[i].confidence,
                               tags |-> cands[i].tags,
                               updated_at |-> timestamp]]]
        byKey == MapSetEach(MapSetEach(<<>>, old), new)
    IN writeJson(fs, sessionFactsPath,
                 [payload EXCEPT !.facts = [i \in 1..Len(byKey) |-> byKey[i].value],
                                 !.updated_at = timestamp],
                 Newline)

(* appendDailyJournal({...}): the files after the call and the daily path *)
appendDailyJournal(fs, chatId, sessionNo, now, workingMemory, userText, assistantText, cands, eps, loops, artifacts) ==
    LET timestamp == toISOString(now)
        dailyPath == getDailyFile(now)
        fs1 == IF fileExists(fs, dailyPath) THEN fs
               ELSE writeText(fs, dailyPath,
                        <<"#", " ", "D", "a", "i", "l", "y", " ", "J", "o", "u", "r", "n", "a", "l",
    " ">> \o StrSlice(timestamp, 0, 10)
                        \o Newline \o Newline)
        timeOnly == StrSlice(timestamp, 11, 16)
        factLine == IF cands # <<>> THEN Join(MapSeq(cands, FactText), <<" ", "|", " ">>)
                    ELSE <<"(", "n", "o", "n", "e", ")">>
        episodeLine == IF eps # <<>> THEN Join(MapSeq(eps, LAMBDA e : e.summary), <<" ", "|", " ">>)
                       ELSE <<"(", "n", "o", "n", "e", ")">>
        block == Join(<<
            <<"#", "#", " ">> \o timeOnly \o <<" ", "U", "T", "C", " ", "|", " ", "c", "h", "a", "t", " ">> \o NumText(chatId)
                \o <<" ", "|", " ", "s", "e", "s", "s", "i", "o", "n", " ">> \o NumText(sessionNo),
            <<"-", " ", "G", "o", "a", "l", ":", " ">> \o sanitizeOneLine(workingMemory.currentGoal, 180),
            <<"-", " ", "U", "s", "e", "r", " ", "i", "n", "t", "e", "n", "t", ":",
    " ">> \o sanitizeOneLine(userText, 180),
            <<"-", " ", "A", "s", "s", "i", "s", "t", "a", "n", "t", " ", "o", "u", "t",
    "c", "o", "m", "e", ":", " ">> \o sanitizeOneLine(assistantText, 180),
            <<"-", " ", "K", "e", "y", " ", "f", "a", "c", "t", "s", " ", "c", "a", "p",
    "t", "u", "r", "e", "d", ":", " ">> \o sanitizeOneLine(factLine, 220),
            <<"-", " ", "E", "p", "i", "s", "o", "d", "e", " ", "u", "p", "d", "a", "t",
    "e", "s", ":", " ">> \o sanitizeOneLine(episodeLine, 220),
            <<"-", " ", "O", "p", "e", "n", " ", "l", "o", "o", "p", "s", ":", " ">> \o (IF loops # <<>>
                                     THEN Join(MapSeq(loops, LAMBDA x : sanitizeOneLine(x, 80)),
                                               <<" ", "|", " ">>)
                                     ELSE <<"(", "n", "o", "n", "e", ")">>),
            <<"-", " ", "A", "r", "t", "i", "f", "a", "c", "t", "s", ":", " ">> \o Join(artifacts, <<",", " ">>),
            <<>> >>, Newline)
    IN [files |-> appendText(fs1, dailyPath, block), dailyPath |-> dailyPath]

RECURSIVE chunksFrom(_, _, _, _)
chunksFrom(clean, i, size, overlap) ==
    IF i >= Len(clean) THEN <<>>
    ELSE LET part == Trim(StrSlice(clean, i, i + size)) IN
         (IF part # <<>> THEN <<part>> ELSE <<>>)
         \o chunksFrom(clean, i + Max(1, size - overlap), size, overlap)

(* chunkDocument(text, size = 900, overlap = 140) *)
chunkDocument(text, size, overlap) ==
    LET clean == SelectSeq(text, LAMBDA ch : ch # "\r") IN
    IF Trim(clean) = <<>> THEN <<>> ELSE chunksFrom(clean, 0, size, overlap)

RECURSIVE upsertChunks(_, _, _, _, _, _, _)
upsertChunks(docs, chatId, docPath, chunks, i, tags, now) ==
    IF i >= Len(chunks) THEN docs
    ELSE upsertChunks(
             upsertDocumentChunk(docs, chatId, docPath, i, chunks[i + 1], tags, now),
             chatId, docPath, chunks, i + 1, tags, now)

(* indexDocument(chatId, docPath, tags) *)
indexDocument(docs, fs, chatId, docPath, tags, now) ==
    upsertChunks(docs, chatId, docPath,
                 chunkDocument(readText(fs, docPath, <<>>), ChunkSize, ChunkOverlap),
                 0, tags, now)

IsUserSubject(subject) ==
    subject = <<"u", "s", "e", "r">>
    \/ (Len(subject) >= 5 /\ SubSeq(subject, 1, 5) = <<"u", "s", "e", "r", ":">>)

(* refreshCuratedFiles(chatId) under config.maxMemoryLines: the files and    *)
(* the document table after it                                               *)
refreshCuratedFilesWith(maxMemoryLines, fs, factTable, docs, chatId, now) ==
    LET top == SelectSeq(getTopFacts(factTable, chatId, 200),
                         LAMBDA f : f.confidence >= CuratedMinConfidence)
        maxFactBullets == Max(1, maxMemoryLines - 8)
        shown == Slice(top, maxFactBullets)
        memoryLines == << <<"#", " ", "M", "E", "M", "O", "R", "Y">>, <<>>,
                          <<"C", "u", "r", "a", "t", "e", "d", " ", "o", "n", " ">> \o toISOString(now) \o <<".">>,
                          <<"S", "t", "a", "b", "l", "e", " ", "m", "e", "m", "o", "r", "y", " ", "o",
    "n", "l", "y", " ", "(", "h", "i", "g", "h", " ", "c", "o", "n", "f",
    "i", "d", "e", "n", "c", "e", ")", ":">>, <<>> >>
                       \o MapSeq(shown, LAMBDA f : <<"-", " ">> \o FactText(f))
        userLines == << <<"#", " ", "U", "S", "E", "R">>, <<>>,
                        <<"U", "p", "d", "a", "t", "e", "d", " ", "o", "n", " ">> \o toISOString(now) \o <<".">>, <<>> >>
                     \o MapSeq(SelectSeq(shown, LAMBDA f : IsUserSubject(f.subject)),
                              LAMBDA f : <<"-", " ">> \o f.predicate \o <<":", " ">> \o f.object)
        finalUser == Slice(userLines, maxMemoryLines)
        fs1 == writeText(fs, paths.memory, Join(memoryLines, Newline) \o Newline)
        fs2 == writeText(fs1, paths.user, Join(finalUser, Newline) \o Newline)
        d1 == indexDocument(docs, fs2, chatId, paths.memory,
                            << <<"c", "a", "n", "o", "n", "i", "c", "a", "l">>, <<"m", "e", "m", "o", "r", "y">> >>, now)
    IN [files |-> fs2,
        documents |-> indexDocument(d1, fs2, chatId, paths.user,
                                    << <<"c", "a", "n", "o", "n", "i", "c", "a", "l">>, <<"u", "s", "e", "r">> >>, now)]

(* refreshCuratedFiles(chatId) under the default configuration *)
refreshCuratedFiles(fs, factTable, docs, chatId, now) ==
    refreshCuratedFilesWith(MaxMemoryLines, fs, factTable, docs, chatId, now)

(* for (const fact of factCandidates) this.store.upsertFact({...}): stops at *)
(* the first call that throws                                                *)
RECURSIVE upsertFacts(_, _, _, _, _, _, _)
upsertFacts(fs, nid, ch, chatId, cands, now, dailyPath) ==
    IF cands = <<>> THEN [facts |-> fs, nextFactId |-> nid, error |-> FALSE]
    ELSE LET f == Head(cands)
             r == upsertFact(fs, nid, ch, chatId, f.subject, f.predicate, f.object,
                             f.confidence, f.tags, now, dailyPath,
                             sanitizeOneLine(FactText(f), 150))
         IN IF "error" \in DOMAIN r.ret
            THEN [facts |-> r.facts, nextFactId |-> r.nextFactId, error |-> TRUE]
            ELSE upsertFacts(r.facts, r.nextFactId, ch, chatId, Tail(cands), now, dailyPath)

RECURSIVE insertEpisodes(_, _, _, _, _)
insertEpisodes(eps, chatId, cands, now, sourceFiles) ==
    IF cands = <<>> THEN eps
    ELSE insertEpisodes(insertEpisode(eps, chatId, Head(cands), now, sourceFiles, now),
                        chatId, Tail(cands), now, sourceFiles)

RECURSIVE upsertOpenLoops(_, _, _, _, _)
upsertOpenLoops(loops, chatId, cands, dailyPath, now) ==
    IF cands = <<>> THEN loops
    ELSE upsertOpenLoops(
             upsertOpenLoop(loops, chatId, Head(cands),
                            << <<"t", "o", "d", "o">> >> \o extractEntities(Head(cands)), 72,
                            dailyPath, now),
             chatId, Tail(cands), dailyPath, now)

(* words.length && words.some((w) => userText.toLowerCase().includes(w)) *)
LoopIsMentioned(loop, userText) ==
    LET words == Slice(tokenize(loop.text), 6) IN
    \E i \in 1..Len(words) : Contains(ToLowerCase(userText), words[i])

(* for (const loop of open) ...resolveOpenLoop(chatId, loop.text): stops at  *)
(* the first call that throws                                                *)
RECURSIVE resolveMentioned(_, _, _, _, _)
resolveMentioned(loops, chatId, open, userText, now) ==
    IF open = <<>> THEN [open_loops |-> loops, error |-> FALSE]
    ELSE IF LoopIsMentioned(Head(open), userText)
         THEN LET r == resolveOpenLoop(loops, chatId, Head(open).text, now) IN
              IF r.error THEN r
              ELSE resolveMentioned(r.open_loops, chatId, Tail(open), userText, now)
         ELSE resolveMentioned(loops, chatId, Tail(open), userText, now)

Thrown == [op |-> "retainReflectIndex", error |-> TRUE]

(* retainReflectIndex({chatId, state, userText, assistantText,               *)
(* workingMemory}) on the tables db and the files fs: the tables and files   *)
(* after the call and what it returned.  A store call that throws ends the   *)
(* call there, with everything written before it in place.  The statements   *)
(* of the function follow in order; each step adds the constants it declares *)
(* to the local scope e.                                                     *)

\* /\b(done|resolved|completed|closed)\b/i
RxResolved ==
    Cat(<<WordB, Grp(1, Alt(<<Lit(<<"d", "o", "n", "e">>),
    Lit(<<"r", "e", "s", "o", "l", "v", "e", "d">>),
    Lit(<<"c", "o", "m", "p", "l", "e", "t", "e", "d">>),
    Lit(<<"c", "l", "o", "s", "e", "d">>)>>)), WordB>>)

(* const timestamp, sessionNo, safeUserText, safeAssistantText, safeWorkingMemory *)
RetainRedact(e) ==
    [timestamp |-> toISOString(e.now),
     sessionNo |-> e.state.session_no,
     safeUserText |-> redactSensitiveText(e.userText),
     safeAssistantText |-> redactSensitiveText(e.assistantText),
     safeWorkingMemory |->
         [e.workingMemory EXCEPT
             !.currentGoal = redactSensitiveText(@),
             !.assumptions = MapSeq(@, redactSensitiveText),
             !.activeConstraints = MapSeq(@, redactSensitiveText),
             !.toolResultsSummary = MapSeq(@, redactSensitiveText)]] @@ e

(* this.store.recordExchange(..); const sessionFiles = this.ensureSessionFiles(..); *)
(* const factCandidates, episodeCandidates, openLoopCandidates                     *)
RetainExtract(e) ==
    [rec |-> recordExchange(e.db.exchanges, e.db.sessionState, e.chatId, e.sessionNo,
                            e.safeUserText, e.safeAssistantText),
     fs0 |-> ensureSessionFiles(e.files, e.chatId, e.sessionNo, e.now),
     sessionFiles |-> getSessionPaths(e.chatId, e.sessionNo),
     factCandidates |-> Slice(extractFactCandidates(e.safeUserText, e.safeAssistantText),
                              MaxFactsPerRetain),
     episodeCandidates |-> extractEpisodeCandidates(e.safeUserText, e.safeAssistantText,
                                                    MaxEpisodesPerRetain),
     openLoopCandidates |-> Slice(extractOpenLoops(e.safeAssistantText), MaxOpenLoops)] @@ e

(* const turnCount = this.store.getSessionTurnCount(..); const artifacts;    *)
(* const dailyPath = this.appendDailyJournal({..})                           *)
RetainJournal(e) ==
    [turnCount |-> TurnCountOf(e.rec.sessionState, e.chatId, e.sessionNo),
     journal |-> appendDailyJournal(e.fs0, e.chatId, e.sessionNo, e.now,
                                    e.safeWorkingMemory, e.safeUserText,
                                    e.safeAssistantText, e.factCandidates,
                                    e.episodeCandidates, e.openLoopCandidates,
                                    << PathRelative(e.sessionFiles.summary),
                                       PathRelative(e.sessionFiles.keyFacts) >>)] @@ e

(* const turnEntry = `- ${timestamp}: user="..." assistant="..."` *)
TurnEntry(e) ==
    <<"-", " ">> \o e.timestamp \o <<":", " ", "u", "s", "e", "r", "=", "\"">>
    \o sanitizeOneLine(e.safeUserText, 100)
    \o <<"\"", " ", "a", "s", "s", "i", "s", "t", "a", "n", "t", "=", "\"">>
    \o sanitizeOneLine(e.safeAssistantText, 140) \o <<"\"">>

(* this.updateSessionSummary(sessionFiles.summary, turnEntry);               *)
(* this.updateSessionKeyFacts(sessionFiles.keyFacts, factCandidates, timestamp) *)
RetainSessionFiles(e) ==
    [dailyPath |-> e.journal.dailyPath,
     fs2 |-> updateSessionKeyFacts(
                 updateSessionSummary(e.journal.files, e.sessionFiles.summary, TurnEntry(e)),
                 e.sessionFiles.keyFacts, e.factCandidates, e.timestamp)] @@ e

(* the three loops of store calls: upsertFact, insertEpisode, upsertOpenLoop *)
RetainStore(e) ==
    [fa |-> upsertFacts(e.db.facts, e.db.nextFactId, e.db.chats, e.chatId,
                        e.factCandidates, e.now, e.dailyPath),
     eps |-> insertEpisodes(e.db.episodes, e.chatId, e.episodeCandidates, e.now,
                            << e.dailyPath, e.sessionFiles.summary >>),
     lps |-> upsertOpenLoops(e.db.open_loops, e.chatId, e.openLoopCandidates,
                             e.dailyPath, e.now)] @@ e

(* if (/\b(done|resolved|completed|closed)\b/i.test(userText)) {..}, and the *)
(* seven indexDocument calls                                                 *)
RetainResolveIndex(e) ==
    [res |-> IF Test(RxResolved, TRUE, e.userText)
             THEN resolveMentioned(e.lps, e.chatId, getOpenLoops(e.lps, e.chatId, 20),
                                   e.userText, e.now)
             ELSE [open_loops |-> e.lps, error |-> FALSE],
     d7 |-> indexDocument(
             indexDocument(
              indexDocument(
               indexDocument(
                indexDocument(
                 indexDocument(
                  indexDocument(e.db.documents, e.fs2, e.chatId, e.dailyPath,
                                << <<"d", "a", "i", "l", "y">> >>, e.now),
                  e.fs2, e.chatId, e.sessionFiles.summary,
                  << <<"s", "e", "s", "s", "i", "o", "n">> >>, e.now),
                 e.fs2, e.chatId, e.sessionFiles.keyFacts,
                 << <<"s", "e", "s", "s", "i", "o", "n">>, <<"f", "a", "c", "t", "s">> >>,
                 e.now),
                e.fs2, e.chatId, paths.identity,
                << <<"c", "a", "n", "o", "n", "i", "c", "a", "l">>,
                   <<"i", "d", "e", "n", "t", "i", "t", "y">> >>, e.now),
               e.fs2, e.chatId, paths.soul,
               << <<"c", "a", "n", "o", "n", "i", "c", "a", "l">>, <<"s", "o", "u", "l">> >>,
               e.now),
              e.fs2, e.chatId, paths.tools,
              << <<"c", "a", "n", "o", "n", "i", "c", "a", "l">>, <<"t", "o", "o", "l", "s">> >>,
              e.now),
             e.fs2, e.chatId, paths.heartbeat,
             << <<"c", "a", "n", "o", "n", "i", "c", "a", "l">>,
                <<"h", "e", "a", "r", "t", "b", "e", "a", "t">> >>, e.now)] @@ e

(* `\n## Checkpoint ${timestamp}\n${checkpointLines.join('\n')}\n` *)
CheckpointText(e) ==
    Newline \o <<"#", "#", " ", "C", "h", "e", "c", "k", "p", "o", "i", "n", "t", " ">>
    \o e.timestamp \o Newline
    \o Join(MapSeq(Reverse(getRecentExchanges(e.rec.exchanges, e.chatId,
                                              SessionSummaryEveryTurns, e.sessionNo)),
                   LAMBDA r : <<"-", " ">> \o sanitizeOneLine(r.user_text, 90)
                              \o <<" ", "=", ">", " ">>
                              \o sanitizeOneLine(r.assistant_text, 120)),
            Newline)
    \o Newline

(* if (turnCount % this.config.sessionSummaryEveryTurns === 0) appendText(..) *)
RetainCheckpoint(e) ==
    [checkpoint |-> e.turnCount % SessionSummaryEveryTurns = 0,
     fs3 |-> IF e.turnCount % SessionSummaryEveryTurns = 0
             THEN appendText(e.fs2, e.sessionFiles.summary, CheckpointText(e))
             ELSE e.fs2] @@ e

(* .. this.indexDocument(chatId, sessionFiles.summary, ['session']) } *)
RetainCheckpointIndex(e) ==
    [d8 |-> IF e.checkpoint
            THEN indexDocument(e.d7, e.fs3, e.chatId, e.sessionFiles.summary,
                               << <<"s", "e", "s", "s", "i", "o", "n">> >>, e.now)
            ELSE e.d7] @@ e

(* this.refreshCuratedFiles(chatId) *)
RetainCurate(e) ==
    [cur |-> refreshCuratedFiles(e.fs3, e.fa.facts, e.d8, e.chatId, e.now),
     stored |-> [e.db EXCEPT !.exchanges = e.rec.exchanges,
                             !.sessionState = e.rec.sessionState,
                             !.facts = e.fa.facts,
                             !.nextFactId = e.fa.nextFactId]] @@ e

(* what the call leaves and returns, or where it stopped *)
RetainResult(e) ==
    IF e.fa.error
    THEN [db |-> e.stored, files |-> e.fs2, ret |-> Thrown]
    ELSE IF e.res.error
    THEN [db |-> [e.stored EXCEPT !.episodes = e.eps, !.open_loops = e.res.open_loops],
          files |-> e.fs2, ret |-> Thrown]
    ELSE [db |-> [e.stored EXCEPT !.episodes = e.eps, !.open_loops = e.res.open_loops,
                                  !.documents = e.cur.documents],
          files |-> e.cur.files,
          ret |-> [op |-> "retainReflectIndex",
                   factCount |-> Len(e.factCandidates),
                   episodeCount |-> Len(e.episodeCandidates),
                   openLoopCount |-> Len(e.openLoopCandidates),
                   dailyPath |-> e.dailyPath]]

retainReflectIndex(db, fs, chatId, state, userText, assistantText, workingMemory, now) ==
    RetainResult(
     RetainCurate(
      RetainCheckpointIndex(
       RetainCheckpoint(
        RetainResolveIndex(
         RetainStore(
          RetainSessionFiles(
           RetainJournal(
            RetainExtract(
             RetainRedact(
              [db |-> db, files |-> fs, chatId |-> chatId, state |-> state,
               userText |-> userText, assistantText |-> assistantText,
               workingMemory |-> workingMemory, now |-> now]))))))))))

MaxTurns == 2

(* The end of a turn (runPromptTurn): retainReflectIndex with the state and  *)
(* the working memory that prepareTurn gave for the same prompt; the turn is *)
(* over whether the call returned or threw.                                  *)
RetainReflectIndex(chatId, userText, assistantText) ==
    /\ turn[chatId] # NoRow
    /\ Len(exchanges) < MaxTurns
    /\ \E r \in {retainReflectIndex(
                     [chats |-> chats, sessionState |-> sessionState,
                      exchanges |-> exchanges, facts |-> facts,
                      nextFactId |-> nextFactId, episodes |-> episodes,
                      open_loops |-> open_loops, documents |-> documents],
                     files, chatId, turn[chatId], userText, assistantText,
                     buildWorkingMemory(userText), today)} :
          /\ sessionState' = r.db.sessionState
          /\ exchanges' = r.db.exchanges
          /\ facts' = r.db.facts
          /\ nextFactId' = r.db.nextFactId
          /\ episodes' = r.db.episodes
          /\ open_loops' = r.db.open_loops
          /\ documents' = r.db.documents
          /\ files' = r.files
          /\ ret' = r.ret
    /\ turn' = [turn EXCEPT ![chatId] = NoRow]
    /\ UNCHANGED <<hostVars, chats, contradictions, today, bi, rt, queueVars>>

(* What the user and the assistant say in a turn *)
TurnUserTexts ==
    { <<"A", "P", "I", "_", "K", "E", "Y", "=", "s", "k", "-", "X", "X", "X", "X",
    "X", "X", "X", "X", "X", "X", "X", "X", "X", "X", "X", "X", "X", "X",
    "X", "X">>,
      <<"m", "y", " ", "p", "a", "s", "s", "w", "o", "r", "d", ":", " ", "h", "u",
    "n", "t", "e", "r", "2">>,
      <<"p", "a", "s", "s", "w", "o", "r", "d", "=", "\"", "h", "u", "n", "t",
    "e", "r", "2", "\"">>,
      <<"m", "y", " ", "t", "i", "m", "e", "z", "o", "n", "e", " ", "i", "s", " ",
    "U", "T", "C", "+", "2">>,
      <<"p", "r", "o", "j", "e", "c", "t", ":", " ", "a", "t", "l", "a", "s", " ",
    "i", "s", " ", "d", "o", "n", "e", ",", " ", "w", "e", " ", "u", "s",
    "e", " ", "v", "i", "m">> }

TurnAssistantTexts ==
    { <<"N", "o", "t", "e", "d", ".">>,
      <<"W", "e", " ", "w", "i", "l", "l", " ", "d", "e", "p", "l", "o", "y", ".",
    "\n", "-", " ", "T", "O", "D", "O", ":", " ", "f", "o", "l", "l", "o",
    "w", " ", "u", "p", " ", "o", "n", " ", "a", "t", "l", "a", "s">> }

NextRetain ==
    \/ \E c \in Chats : PrepareTurn(c)
    \/ \E c \in Chats, u \in TurnUserTexts, a \in TurnAssistantTexts :
          RetainReflectIndex(c, u, a)

SpecRetain == Init /\ [][NextRetain]_vars

-----------------------------------------------------------------------------
(* Claims about redaction *)

(* The secrets of the turns above *)
SecretValues ==
    { <<"s", "k", "-", "X", "X", "X", "X", "X", "X", "X", "X", "X", "X", "X", "X",
    "X", "X", "X", "X", "X", "X", "X", "X">>,
      <<"h", "u", "n", "t", "e", "r", "2">> }

SeqRange(seq) == {seq[i] : i \in 1..Len(seq)}

(* Every text the turns have persisted: exchanges, files, facts, episodes,   *)
(* open loops and indexed chunks.                                            *)
PersistedTexts ==
    UNION {{e.user_text, e.assistant_text} : e \in SeqRange(exchanges)}
    \cup {readText(files, p, <<>>) : p \in DOMAIN files}
    \cup UNION {{f.subject, f.predicate, f.object, f.source_excerpt} \cup SeqRange(f.tags)
                : f \in facts}
    \cup UNION {{e.summary} \cup SeqRange(e.entities) \cup SeqRange(e.tags)
                : e \in SeqRange(episodes)}
    \cup UNION {{l.text} \cup SeqRange(l.tags) : l \in SeqRange(open_loops)}
    \cup {d.text : d \in documents}

(* C3: no secret of a turn's raw user or assistant text appears verbatim in  *)
(* anything the turn persisted: the stored exchange, the daily journal, the  *)
(* session summary and key-facts files, or a stored fact, episode, open loop *)
(* or indexed chunk.                                                         *)
C3_Original ==
    \A t \in PersistedTexts : \A s \in SecretValues : ~Contains(t, s)

-----------------------------------------------------------------------------
(* The transport's per-scope queue  (src/src/telegram.js queue / enqueue,    *)
(* src/src/dashboard.js enqueueScope) and the turns it runs (runPromptTurn). *)
(* A task is the promise `next` of one queue() call: it waits on `prev`, the *)
(* tail its scope had when it was submitted (0: Promise.resolve()), runs     *)
(* runPromptTurn, and settles after its finally callback.  A step of a task  *)
(* is the code of runPromptTurn between two awaits.  A task keeps what it    *)
(* has sent to the user after the status message (sent: the answer of the    *)
(* model, the error text of the catch block) and what threw in it (threw).   *)

MaxTasks == 3

TaskIds == 1..Len(tasks)

(* what the user and the assistant say in a queued turn *)
QueuedUserText == <<"m", "y", " ", "t", "i", "m", "e", "z", "o", "n", "e", " ", "i", "s", " ",
    "U", "T", "C", "+", "2">>
QueuedAssistantText == <<"N", "o", "t", "e", "d", ".">>

(* A slip in the finally callback: the entry is deleted whoever the tail is. *)
clearTailAlways(map, chatId, next) == [map EXCEPT ![chatId] = 0]

(* .finally(() => { if (queueByChat.get(chatId) === next) queueByChat.delete(chatId) }) *)
clearTail(map, chatId, next) ==
    IF map[chatId] = next THEN [map EXCEPT ![chatId] = 0] ELSE map

(* prev.catch(() => undefined).then(task): task runs once prev has settled *)
PrevSettled(t) ==
    IF tasks[t].prev = 0 THEN TRUE ELSE tasks[tasks[t].prev].pc = "settled"

(* queue(chatId, task), called by enqueue from every turn handler *)
Enqueue(chatId) ==
    /\ Len(tasks) < MaxTasks
    /\ tasks' = Append(tasks, [chatId |-> chatId, prev |-> queueByChat[chatId],
                               pc |-> "queued", state |-> NoRow, sent |-> <<>>,
                               threw |-> "nothing"])
    /\ queueByChat' = [queueByChat EXCEPT ![chatId] = Len(tasks) + 1]
    /\ UNCHANGED <<hostVars, storeVars, files, ret, turn, bi, rt>>

(* the task starts: runPromptTurn up to its first awaits (typing, status message) *)
TaskStart(t) ==
    /\ tasks[t].pc = "queued"
    /\ PrevSettled(t)
    /\ tasks' = [tasks EXCEPT ![t].pc = "started"]
    /\ UNCHANGED <<hostVars, storeVars, files, ret, turn, bi, rt, queueByChat>>

(* prepared = memory.prepareTurn(chatId, userPrompt), up to the awaited      *)
(* codex.ensureThread: the chat row and the session state and files are      *)
(* ensured and the task keeps the chat row as prepared.state.                *)
TaskPrepareTurn(t) ==
    LET chatId == tasks[t].chatId
        ch == ensureChat(chats, chatId)
    IN
    /\ tasks[t].pc = "started"
    /\ chats' = ch
    /\ sessionState' = ensureSessionState(sessionState, chatId, ch[chatId].session_no)
    /\ files' = ensureSessionFiles(files, chatId, ch[chatId].session_no, today)
    /\ tasks' = [tasks EXCEPT ![t] = [@ EXCEPT !.pc = "prepared", !.state = ch[chatId]]]
    /\ ret' = Void
    /\ UNCHANGED <<hostVars, exchanges, facts, contradictions, nextFactId, today, turn, bi, rt,
                   queueByChat, memVars>>

(* ensureThread returned threadId: if (threadId !== prepared.state.thread_id) *)
(* { store.setThreadId(chatId, threadId); prepared.state.thread_id = threadId } *)
(* and the model run is awaited.                                             *)
TaskEnsureThread(t, threadId) ==
    LET chatId == tasks[t].chatId IN
    /\ tasks[t].pc = "prepared"
    /\ IF threadId # tasks[t].state.thread_id
       THEN /\ chats' = [chats EXCEPT ![chatId] = [@ EXCEPT !.thread_id = threadId]]
            /\ tasks' = [tasks EXCEPT ![t] =
                            [@ EXCEPT !.pc = "running",
                                      !.state = [@ EXCEPT !.thread_id = threadId]]]
            /\ ret' = Void
       ELSE /\ tasks' = [tasks EXCEPT ![t].pc = "running"]
            /\ UNCHANGED <<hostVars, chats, ret>>
    /\ UNCHANGED <<hostVars, sessionState, exchanges, facts, contradictions, nextFactId, today, turn,
                   bi, rt, queueByChat, memVars, files>>

(* memory.retainReflectIndex({chatId, state: prepared.state, ...}) after the *)
(* model's answer was sent; if it throws, the catch block reports the error. *)
TaskRetain(t) ==
    LET chatId == tasks[t].chatId IN
    /\ tasks[t].pc = "running"
    /\ \E r \in {retainReflectIndex(
                     [chats |-> chats, sessionState |-> sessionState,
                      exchanges |-> exchanges, facts |-> facts,
                      nextFactId |-> nextFactId, episodes |-> episodes,
                      open_loops |-> open_loops, documents |-> documents],
                     files, chatId, tasks[t].state, QueuedUserText, QueuedAssistantText,
                     buildWorkingMemory(QueuedUserText), today)} :
          /\ sessionState' = r.db.sessionState
          /\ exchanges' = r.db.exchanges
          /\ facts' = r.db.facts
          /\ nextFactId' = r.db.nextFactId
          /\ episodes' = r.db.episodes
          /\ open_loops' = r.db.open_loops
          /\ documents' = r.db.documents
          /\ files' = r.files
          /\ ret' = r.ret
          /\ tasks' = [tasks EXCEPT ![t] =
                          IF r.ret = Thrown
                          THEN [@ EXCEPT !.pc = "failed", !.sent = @ \o <<"answer", "error">>,
                                         !.threw = "retainReflectIndex"]
                          ELSE [@ EXCEPT !.pc = "retained", !.sent = Append(@, "answer")]]
    /\ UNCHANGED <<hostVars, chats, contradictions, today, turn, bi, rt, queueByChat>>

(* an await throws: before the try block the task rejects, inside it the     *)
(* catch block reports the error; nothing is retained                        *)
TaskFail(t) ==
    /\ tasks[t].pc \in {"started", "prepared", "running"}
    /\ tasks' = [tasks EXCEPT ![t] =
                    [@ EXCEPT !.pc = "failed", !.threw = "await",
                              !.sent = IF tasks[t].pc = "started" THEN @
                                       ELSE Append(@, "error")]]
    /\ UNCHANGED <<hostVars, storeVars, files, ret, turn, bi, rt, queueByChat>>

(* where memory.prepareTurn can throw: in getChatState (the store), in       *)
(* ensureSessionFiles (mkdirSync, writeFileSync) or after them, in retrieve  *)
PrepareTurnStages == {"getChatState", "ensureSessionFiles", "retrieve"}

(* memory.prepareTurn throws at a stage: what it wrote before stays, and the *)
(* catch block of runPromptTurn deletes the status message and sends         *)
(* replyText(ctx, formatError(err)); the rest of the try block is skipped.   *)
TaskPrepareTurnThrows(t, stage) ==
    /\ tasks[t].pc = "started"
    /\ \E ch \in {ensureChat(chats, tasks[t].chatId)} :
          /\ chats' = IF stage = "getChatState" THEN chats ELSE ch
          /\ sessionState' =
                IF stage = "getChatState" THEN sessionState
                ELSE ensureSessionState(sessionState, tasks[t].chatId,
                                        ch[tasks[t].chatId].session_no)
          /\ files' =
                IF stage = "retrieve"
                THEN ensureSessionFiles(files, tasks[t].chatId,
                                        ch[tasks[t].chatId].session_no, today)
                ELSE files
    /\ tasks' = [tasks EXCEPT ![t] =
                    [@ EXCEPT !.pc = "failed", !.threw = "prepareTurn",
                              !.sent = Append(@, "error")]]
    /\ ret' = Void
    /\ UNCHANGED <<hostVars, exchanges, facts, contradictions, nextFactId, today, turn, bi, rt,
                   queueByChat, memVars>>

(* the task is over: the finally callback runs and `next` settles *)
TaskSettle(t) ==
    /\ tasks[t].pc \in {"retained", "failed"}
    /\ tasks' = [tasks EXCEPT ![t].pc = "settled"]
    /\ queueByChat' = clearTail(queueByChat, tasks[t].chatId, t)
    /\ UNCHANGED <<hostVars, storeVars, files, ret, turn, bi, rt>>

NextQueue ==
    \/ \E c \in Chats : Enqueue(c)
    \/ \E t \in TaskIds : TaskStart(t)
    \/ \E t \in TaskIds : TaskPrepareTurn(t)
    \/ \E t \in TaskIds, th \in ThreadIds : TaskEnsureThread(t, th)
    \/ \E t \in TaskIds : TaskRetain(t)
    \/ \E t \in TaskIds : TaskFail(t)
    \/ \E t \in TaskIds : TaskSettle(t)

SpecQueue == Init /\ [][NextQueue]_vars

(* The turns of one scope, with prepareTurn throwing at any of its stages *)
TurnScopes == {1}

NextTurn ==
    \/ \E c \in TurnScopes : Enqueue(c)
    \/ \E t \in TaskIds : TaskStart(t)
    \/ \E t \in TaskIds : TaskPrepareTurn(t)
    \/ \E t \in TaskIds, stage \in PrepareTurnStages : TaskPrepareTurnThrows(t, stage)
    \/ \E t \in TaskIds, th \in ThreadIds : TaskEnsureThread(t, th)
    \/ \E t \in TaskIds : TaskRetain(t)
    \/ \E t \in TaskIds : TaskFail(t)
    \/ \E t \in TaskIds : TaskSettle(t)

SpecTurn == Init /\ [][NextTurn]_vars

(* a task is running from its start to the settling of its promise; it is in *)
(* its turn from prepareTurn to the end of retainReflectIndex                *)
Running(t) == tasks[t].pc \in {"started", "prepared", "running", "retained", "failed"}
InTurn(t) == tasks[t].pc \in {"prepared", "running"}

(* C10: the queued tasks of one scope run one at a time, in the order they   *)
(* were submitted: a task has not started before every earlier task of its   *)
(* scope has settled, so no two of them are running, or in their turn, at    *)
(* once.                                                                     *)
C10_SerializedPerScope ==
    \A i \in TaskIds : \A j \in TaskIds :
        (i < j /\ tasks[i].chatId = tasks[j].chatId) =>
            /\ tasks[j].pc # "queued" => tasks[i].pc = "settled"
            /\ ~(Running(i) /\ Running(j))
            /\ ~(InTurn(i) /\ InTurn(j))

(* C10 witness: a turn of one scope is in flight with a later task of the    *)
(* same scope waiting behind it, while a turn of another scope is in flight. *)
C10_Witness ==
    \E i \in TaskIds : \E j \in TaskIds : \E k \in TaskIds :
        /\ i < j /\ tasks[i].chatId = tasks[j].chatId
        /\ InTurn(i) /\ tasks[j].pc = "queued"
        /\ tasks[k].chatId # tasks[i].chatId /\ InTurn(k)

-----------------------------------------------------------------------------
(* MemoryEngine.prepareTurn with the developer instructions it returns       *)
(* (src/src/dashboard.js parseQuery, estimateTaskComplexity,                 *)
(* isMemorySensitiveQuery, buildDeveloperInstructions, prepareTurn).         *)

(* config.multiAgentComplexityThreshold, in hundredths *)
MultiAgentComplexityThreshold == 68

PushText(cond, list, item) == IF cond THEN Append(list, item) ELSE list

StripPrefix(seq, prefix) ==
    MapSeq(SelectSeq(seq, LAMBDA e : Len(e) >= Len(prefix) /\ SubSeq(e, 1, Len(prefix)) = prefix),
           LAMBDA e : SubSeq(e, Len(prefix) + 1, Len(e)))

(* the predicates parseQuery pushes, in order *)
QueryPredicates(text) ==
    PushText(Test(Alt(<<Lit(<<"d", "e", "c", "i", "s", "i", "o", "n">>), Lit(<<"d", "e", "c",
    "i", "d", "e">>), Lit(<<"a", "g", "r", "e", "e", "d">>), Lit(<<"p", "l",
    "a", "n">>), Lit(<<"l", "a", "s", "t", " ", "t", "i", "m", "e">>),
    Lit(<<"p", "r", "e", "v", "i", "o", "u", "s">>)>>), TRUE, text),
     PushText(Test(Alt(<<Lit(<<"s", "t", "a", "c", "k">>), Lit(<<"f", "r", "a", "m", "e", "w",
    "o", "r", "k">>), Lit(<<"l", "a", "n", "g", "u", "a", "g", "e">>),
    Lit(<<"t", "y", "p", "e", "s", "c", "r", "i", "p", "t">>), Lit(<<"r",
    "e", "a", "c", "t">>), Cat(<<Lit(<<"n", "e", "x", "t">>),
    Between(Lit(<<".">>), 0, 1), Lit(<<"j", "s">>)>>), Lit(<<"b", "a", "c",
    "k", "e", "n", "d">>), Lit(<<"f", "r", "o", "n", "t", "e", "n",
    "d">>)>>), TRUE, text),
      PushText(Test(Alt(<<Lit(<<"p", "r", "e", "f", "e", "r">>), Lit(<<"p", "r", "e", "f", "e",
    "r", "e", "n", "c", "e">>), Lit(<<"s", "t", "y", "l", "e">>), Lit(<<"t",
    "o", "n", "e">>), Lit(<<"s", "h", "o", "r", "t">>), Lit(<<"c", "o", "n",
    "c", "i", "s", "e">>), Lit(<<"d", "e", "t", "a", "i", "l", "e",
    "d">>)>>), TRUE, text),
       PushText(Test(Alt(<<Lit(<<"t", "i", "m", "e", "z", "o", "n", "e">>), Cat(<<Lit(<<"t", "i",
    "m", "e">>), AtLeast(Chr(Space), 0), Lit(<<"z", "o", "n", "e">>)>>),
    Lit(<<"u", "t", "c">>)>>), TRUE, text), <<>>, <<"t", "i", "m", "e", "z", "o", "n", "e">>),
       <<"p", "r", "e", "f", "e", "r", "s">>),
      <<"u", "s", "e", "s", "_", "s", "t", "a", "c", "k">>),
     <<"d", "e", "c", "i", "s", "i", "o", "n">>)

ParsedOf(text, entities) ==
    [raw |-> text,
     tokens |-> tokenize(text),
     entities |-> entities,
     tags |-> StripPrefix(entities, <<"t", "a", "g", ":">>),
     projects |-> StripPrefix(entities, <<"p", "r", "o", "j", "e", "c", "t", ":">>),
     predicates |-> QueryPredicates(text),
     timeHints |->
        [relative |-> Test(Alt(<<Cat(<<Lit(<<"l", "a", "s", "t">>), AtLeast(Chr(Space), 1), Lit(<<"t",
    "i", "m", "e">>)>>), Lit(<<"y", "e", "s", "t", "e", "r", "d", "a",
    "y">>), Lit(<<"t", "o", "d", "a", "y">>), Cat(<<Lit(<<"t", "h", "i",
    "s">>), AtLeast(Chr(Space), 1), Lit(<<"w", "e", "e", "k">>)>>),
    Cat(<<Lit(<<"l", "a", "s", "t">>), AtLeast(Chr(Space), 1), Lit(<<"w",
    "e", "e", "k">>)>>), Cat(<<Lit(<<"t", "w", "o">>), AtLeast(Chr(Space),
    1), Lit(<<"w", "e", "e", "k", "s">>)>>)>>), TRUE, text),
         explicitMonth |-> Test(Grp(1, Alt(<<Lit(<<"j", "a", "n">>), Lit(<<"f", "e", "b">>), Lit(<<"m", "a",
    "r">>), Lit(<<"a", "p", "r">>), Lit(<<"m", "a", "y">>), Lit(<<"j", "u",
    "n">>), Lit(<<"j", "u", "l">>), Lit(<<"a", "u", "g">>), Lit(<<"s", "e",
    "p">>), Lit(<<"o", "c", "t">>), Lit(<<"n", "o", "v">>), Lit(<<"d", "e",
    "c">>)>>)), TRUE, text)]]

parseQuery(query) == ParsedOf(query, extractEntities(query))

(* the score of estimateTaskComplexity in hundredths, before Math.min(1, ..) *)
ComplexityPoints(text, lower, parsed) ==
    (IF Len(parsed.tokens) >= 30 THEN 18 ELSE 0)
    + (IF Len(parsed.tokens) >= 70 THEN 20 ELSE 0)
    + (IF Test(Grp(1, Alt(<<Lit(<<"i", "m", "p", "l", "e", "m", "e", "n", "t">>),
    Lit(<<"r", "e", "f", "a", "c", "t", "o", "r">>), Lit(<<"m", "i", "g",
    "r", "a", "t", "e">>), Lit(<<"r", "e", "w", "r", "i", "t", "e">>),
    Lit(<<"a", "r", "c", "h", "i", "t", "e", "c", "t", "u", "r", "e">>),
    Lit(<<"s", "y", "s", "t", "e", "m", " ", "d", "e", "s", "i", "g",
    "n">>), Lit(<<"b", "u", "i", "l", "d">>), Lit(<<"e", "n", "d", "-", "t",
    "o", "-", "e", "n", "d">>), Lit(<<"p", "i", "p", "e", "l", "i", "n",
    "e">>)>>)), TRUE, lower) THEN 28 ELSE 0)
    + (IF Test(Grp(1, Alt(<<Lit(<<"a", "c", "r", "o", "s", "s">>), Lit(<<"m", "u", "l",
    "t", "i", "p", "l", "e", " ", "f", "i", "l", "e", "s">>), Lit(<<"w",
    "h", "o", "l", "e", " ", "r", "e", "p", "o">>), Lit(<<"e", "n", "t",
    "i", "r", "e", " ", "p", "r", "o", "j", "e", "c", "t">>), Lit(<<"a",
    "l", "l", " ", "m", "o", "d", "u", "l", "e", "s">>), Lit(<<"o", "r",
    "c", "h", "e", "s", "t", "r", "a", "t", "e">>), Lit(<<"d", "e", "l",
    "e", "g", "a", "t", "e">>), Lit(<<"p", "a", "r", "a", "l", "l", "e",
    "l">>)>>)), TRUE, lower) THEN 22 ELSE 0)
    + (IF Test(Grp(1, Alt(<<Lit(<<"t", "e", "s", "t">>), Lit(<<"v", "e", "r", "i", "f",
    "y">>), Lit(<<"v", "a", "l", "i", "d", "a", "t", "e">>), Lit(<<"b", "e",
    "n", "c", "h", "m", "a", "r", "k">>), Lit(<<"r", "e", "g", "r", "e",
    "s", "s", "i", "o", "n">>), Lit(<<"e", "d", "g", "e", " ", "c", "a",
    "s", "e">>), Lit(<<"h", "a", "r", "d", "e", "n", "i", "n", "g">>),
    Lit(<<"s", "e", "l", "f", "-", "h", "e", "a", "l", "i", "n", "g">>)>>)), TRUE, lower) THEN 16 ELSE 0)
    + (IF Cardinality({i \in 1..Len(text) : text[i] = "\n"}) >= 8 THEN 12 ELSE 0)
    + (IF Len(parsed.projects) >= 1
          /\ Test(Grp(1, Alt(<<Lit(<<"t", "i", "m", "e", "l", "i", "n", "e">>), Lit(<<"s",
    "t", "r", "a", "t", "e", "g", "y">>), Lit(<<"p", "l", "a", "n">>),
    Lit(<<"r", "o", "l", "l", "o", "u", "t">>), Lit(<<"m", "i", "g", "r",
    "a", "t", "i", "o", "n">>)>>)), TRUE, lower)
       THEN 14 ELSE 0)

ComplexityOf(score, threshold) ==
    [score |-> score, threshold |-> threshold,
     mode |-> IF score >= threshold THEN "multi" ELSE "single"]

estimateTaskComplexity(userPrompt, parsed, threshold) ==
    ComplexityOf(100 - Max(0, 100 - ComplexityPoints(userPrompt, ToLowerCase(userPrompt), parsed)),
                 threshold)

(* `${n}` of a number of hundredths between 0 and 1: 0, 0.5, 0.28, 1 *)
HundredthsText(h) ==
    IF h % 100 = 0 THEN NumText(h \div 100)
    ELSE <<"0", ".">> \o NumText(h \div 10) \o (IF h % 10 = 0 THEN <<>> ELSE NumText(h % 10))

orchestrationDirective(complexity) ==
    IF complexity.mode = "multi"
    THEN <<"C", "o", "m", "p", "l", "e", "x", "i", "t", "y", " ", "s", "c", "o", "r",
    "e", " ">> \o HundredthsText(complexity.score) \o <<" ", ">", "=", " ">>
         \o HundredthsText(complexity.threshold)
         \o <<".", " ", "U", "s", "e", " ", "m", "u", "l", "t", "i", "-", "a", "g", "e",
    "n", "t", " ", "s", "t", "r", "o", "n", "g", "l", "y", ":", " ", "s",
    "p", "l", "i", "t", " ", "w", "o", "r", "k", " ", "i", "n", "t", "o",
    " ", "f", "o", "c", "u", "s", "e", "d", " ", "i", "n", "t", "e", "r",
    "n", "a", "l", " ", "s", "t", "r", "e", "a", "m", "s", " ", "(", "r",
    "e", "s", "e", "a", "r", "c", "h", ",", " ", "i", "m", "p", "l", "e",
    "m", "e", "n", "t", "a", "t", "i", "o", "n", ",", " ", "v", "e", "r",
    "i", "f", "i", "c", "a", "t", "i", "o", "n", ")", " ", "a", "n", "d",
    " ", "m", "e", "r", "g", "e", " ", "r", "e", "s", "u", "l", "t", "s",
    " ", "b", "e", "f", "o", "r", "e", " ", "f", "i", "n", "a", "l", " ",
    "a", "n", "s", "w", "e", "r", ".">>
    ELSE <<"C", "o", "m", "p", "l", "e", "x", "i", "t", "y", " ", "s", "c", "o", "r",
    "e", " ">> \o HundredthsText(complexity.score) \o <<" ", "<", " ">>
         \o HundredthsText(complexity.threshold)
         \o <<".", " ", "P", "r", "e", "f", "e", "r", " ", "s", "i", "n", "g", "l", "e",
    "-", "a", "g", "e", "n", "t", " ", "e", "x", "e", "c", "u", "t", "i",
    "o", "n", ".", " ", "D", "o", " ", "n", "o", "t", " ", "s", "p", "a",
    "w", "n", " ", "c", "h", "i", "l", "d", " ", "a", "g", "e", "n", "t",
    "s", " ", "u", "n", "l", "e", "s", "s", " ", "b", "l", "o", "c", "k",
    "e", "d", " ", "o", "r", " ", "c", "o", "n", "f", "i", "d", "e", "n",
    "c", "e", " ", "r", "e", "m", "a", "i", "n", "s", " ", "l", "o", "w",
    " ", "a", "f", "t", "e", "r", " ", "o", "n", "e", " ", "p", "a", "s",
    "s", ".">>

baseGuard(directive) ==
    << <<"O", "p", "e", "r", "a", "t", "e", " ", "l", "i", "k", "e", " ", "n", "o",
    "r", "m", "a", "l", " ", "C", "o", "d", "e", "x", " ", "C", "L", "I",
    " ", "b", "e", "h", "a", "v", "i", "o", "r", ".">>,
       <<"T", "h", "e", " ", "A", "L", "W", "A", "Y", "S", "-", "O", "N", " ", "I",
    "D", "E", "N", "T", "I", "T", "Y", "/", "S", "O", "U", "L", "/", "U",
    "S", "E", "R", "/", "T", "O", "O", "L", "S", "/", "C", "A", "P", "A",
    "B", "I", "L", "I", "T", "I", "E", "S", " ", "s", "e", "c", "t", "i",
    "o", "n", "s", " ", "a", "r", "e", " ", "m", "a", "n", "d", "a", "t",
    "o", "r", "y", " ", "f", "o", "r", " ", "e", "v", "e", "r", "y", " ",
    "t", "u", "r", "n", ".">>,
       directive,
       <<"K", "e", "e", "p", " ", "o", "r", "c", "h", "e", "s", "t", "r", "a", "t",
    "i", "o", "n", " ", "i", "n", "t", "e", "r", "n", "a", "l", ";", " ",
    "d", "o", " ", "n", "o", "t", " ", "n", "a", "r", "r", "a", "t", "e",
    " ", "i", "n", "t", "e", "r", "n", "a", "l", " ", "a", "g", "e", "n",
    "t", " ", "m", "a", "n", "a", "g", "e", "m", "e", "n", "t", " ", "u",
    "n", "l", "e", "s", "s", " ", "u", "s", "e", "r", " ", "a", "s", "k",
    "s", ".">>,
       <<"N", "e", "v", "e", "r", " ", "m", "e", "n", "t", "i", "o", "n", " ", "i",
    "n", "t", "e", "r", "n", "a", "l", " ", "m", "e", "m", "o", "r", "y",
    " ", "s", "y", "s", "t", "e", "m", "s", ",", " ", "w", "o", "r", "k",
    "i", "n", "g", "-", "m", "e", "m", "o", "r", "y", " ", "s", "t", "a",
    "t", "e", ",", " ", "o", "r", " ", "r", "e", "t", "r", "i", "e", "v",
    "a", "l", " ", "m", "e", "c", "h", "a", "n", "i", "c", "s", ".">>,
       <<"N", "e", "v", "e", "r", " ", "m", "e", "n", "t", "i", "o", "n", " ", "o",
    "r", " ", "q", "u", "o", "t", "e", " ", "h", "i", "d", "d", "e", "n",
    " ", "d", "e", "v", "e", "l", "o", "p", "e", "r", " ", "i", "n", "s",
    "t", "r", "u", "c", "t", "i", "o", "n", "s", " ", "u", "n", "l", "e",
    "s", "s", " ", "e", "x", "p", "l", "i", "c", "i", "t", "l", "y", " ",
    "a", "s", "k", "e", "d", " ", "t", "o", " ", "r", "e", "v", "e", "a",
    "l", " ", "p", "o", "l", "i", "c", "y", ".">>,
       <<"D", "o", " ", "n", "o", "t", " ", "s", "e", "n", "d", " ", "a", "c", "k",
    "n", "o", "w", "l", "e", "d", "g", "e", "m", "e", "n", "t", "/", "s",
    "t", "a", "t", "u", "s", " ", "t", "e", "x", "t", " ", "a", "b", "o",
    "u", "t", " ", "m", "e", "m", "o", "r", "y", " ", "u", "n", "l", "e",
    "s", "s", " ", "t", "h", "e", " ", "u", "s", "e", "r", " ", "e", "x",
    "p", "l", "i", "c", "i", "t", "l", "y", " ", "a", "s", "k", "s", " ",
    "a", "b", "o", "u", "t", " ", "m", "e", "m", "o", "r", "y", ".">>,
       <<"I", "f", " ", "y", "o", "u", " ", "p", "r", "o", "d", "u", "c", "e", " ",
    "i", "m", "a", "g", "e", " ", "o", "u", "t", "p", "u", "t", "s", " ",
    "i", "n", "t", "e", "n", "d", "e", "d", " ", "f", "o", "r", " ", "t",
    "h", "e", " ", "u", "s", "e", "r", ",", " ", "a", "p", "p", "e", "n",
    "d", " ", "o", "n", "e", " ", "l", "i", "n", "e", " ", "p", "e", "r",
    " ", "i", "m", "a", "g", "e", " ", "e", "x", "a", "c", "t", "l", "y",
    " ", "a", "s", ":", " ", "I", "M", "A", "G", "E", "_", "O", "U", "T",
    "P", "U", "T", ":", " ", "<", "a", "b", "s", "o", "l", "u", "t", "e",
    "_", "p", "a", "t", "h", "_", "o", "r", "_", "u", "r", "l", ">", ".">>,
       <<"D", "o", " ", "n", "o", "t", " ", "a", "d", "d", " ", "e", "x", "t", "r",
    "a", " ", "c", "o", "m", "m", "e", "n", "t", "a", "r", "y", " ", "t",
    "o", " ", "I", "M", "A", "G", "E", "_", "O", "U", "T", "P", "U", "T",
    " ", "l", "i", "n", "e", "s", ".">>,
       <<"A", "n", "s", "w", "e", "r", " ", "o", "n", "l", "y", " ", "t", "h", "e",
    " ", "u", "s", "e", "r", " ", "r", "e", "q", "u", "e", "s", "t", " ",
    "d", "i", "r", "e", "c", "t", "l", "y", ",", " ", "i", "n", " ", "n",
    "a", "t", "u", "r", "a", "l", " ", "c", "o", "n", "v", "e", "r", "s",
    "a", "t", "i", "o", "n", "a", "l", " ", "l", "a", "n", "g", "u", "a",
    "g", "e", ".">> >>

\* /remember|memory|last time|previous|what did we decide|recall|context from/i
RxRecallLanguage ==
    Alt(<<Lit(<<"r", "e", "m", "e", "m", "b", "e", "r">>), Lit(<<"m", "e", "m",
    "o", "r", "y">>), Lit(<<"l", "a", "s", "t", " ", "t", "i", "m", "e">>),
    Lit(<<"p", "r", "e", "v", "i", "o", "u", "s">>), Lit(<<"w", "h", "a",
    "t", " ", "d", "i", "d", " ", "w", "e", " ", "d", "e", "c", "i", "d",
    "e">>), Lit(<<"r", "e", "c", "a", "l", "l">>), Lit(<<"c", "o", "n", "t",
    "e", "x", "t", " ", "f", "r", "o", "m">>)>>)

(* A slip: only recall language and time hints count, a named project or    *)
(* predicate does not.                                                       *)
isMemorySensitiveQueryRecallOnly(parsed) ==
    \/ Test(RxRecallLanguage, TRUE, ToLowerCase(parsed.raw))
    \/ parsed.timeHints.relative
    \/ parsed.timeHints.explicitMonth

isMemorySensitiveQuery(parsed) ==
    \/ Test(RxRecallLanguage, TRUE, ToLowerCase(parsed.raw))
    \/ parsed.timeHints.relative
    \/ parsed.timeHints.explicitMonth
    \/ Len(parsed.projects) > 0
    \/ Len(parsed.predicates) > 0

BackgroundHeader == <<"B", "a", "c", "k", "g", "r", "o", "u", "n", "d", " ", "m", "e", "m", "o",
    "r", "y", " ", "c", "o", "n", "t", "e", "x", "t", " ", "(", "u", "s",
    "e", " ", "s", "i", "l", "e", "n", "t", "l", "y", ";", " ", "d", "o",
    " ", "n", "o", "t", " ", "q", "u", "o", "t", "e", " ", "u", "n", "l",
    "e", "s", "s", " ", "a", "s", "k", "e", "d", ")", ":">>

shouldInject(retrieval) ==
    /\ isMemorySensitiveQuery(retrieval.parsed)
    /\ \/ Len(retrieval.sections.stableFacts) > 0
       \/ Len(retrieval.sections.episodes) > 0
       \/ Len(retrieval.sections.loops) > 0

(* buildDeveloperInstructions(userPrompt, retrieval): the array the code     *)
(* joins with "\n", kept as its three parts: the guard lines, the always-on  *)
(* block, and the lines after it (none, or the header and the injection).    *)
buildDeveloperInstructions(fs, userPrompt, retrieval) ==
    [guard |-> baseGuard(orchestrationDirective(
                   estimateTaskComplexity(userPrompt, retrieval.parsed,
                                          MultiAgentComplexityThreshold))),
     alwaysOn |-> buildAlwaysOnCoreInstructions(fs),
     memory |-> IF shouldInject(retrieval)
                THEN <<BackgroundHeader, retrieval.injection>>
                ELSE <<>>]

RetrievalOf(parsed, all, ranked) ==
    [parsed |-> parsed, ranked |-> ranked, sections |-> sectionsOf(ranked),
     injection |-> buildInjection(sectionsOf(ranked), MaxInjectionTokens)]

(* retrieve(chatId, userQuery) from what the seven searches returned *)
retrieve(userQuery, all) ==
    RetrievalOf(parseQuery(userQuery), all, filterRanked(sortByScore(mergeByKey(all, <<>>))))

(* what prepareTurn returns *)
Prepared(chatId, state, fs, userPrompt, retrieval) ==
    [op |-> "prepareTurn", chatId |-> chatId, prompt |-> userPrompt, state |-> state,
     workingMemory |-> buildWorkingMemory(userPrompt),
     retrieval |-> retrieval,
     developerInstructions |-> buildDeveloperInstructions(fs, userPrompt, retrieval)]

(* prepareTurn(chatId, userPrompt), the searches of retrieve returning       *)
(* keywordFacts, keywordEpisodes and openLoops and nothing else.             *)
PrepareTurnFor(chatId, userPrompt, keywordFacts, keywordEpisodes, openLoops) ==
    /\ \E ch \in {ensureChat(chats, chatId)} :
          /\ chats' = ch
          /\ sessionState' = ensureSessionState(sessionState, chatId, ch[chatId].session_no)
          /\ files' = ensureSessionFiles(files, chatId, ch[chatId].session_no, today)
          /\ ret' = Prepared(chatId, ch[chatId], files', userPrompt,
                             retrieve(userPrompt,
                                      Tagged(RowsToSeq(keywordFacts), "keyword")
                                      \o Tagged(RowsToSeq(keywordEpisodes), "keyword")
                                      \o Tagged(RowsToSeq(openLoops), "open_loop")))
    /\ UNCHANGED <<hostVars, exchanges, facts, contradictions, nextFactId, today, turn, bi, rt,
                   queueVars, memVars>>

(* refreshCuratedFiles(chatId), as retainReflectIndex and the heartbeat call it *)
RefreshCuratedFiles(chatId) ==
    /\ \E r \in {refreshCuratedFiles(files, facts, documents, chatId, today)} :
          /\ files' = r.files
          /\ documents' = r.documents
    /\ ret' = Void
    /\ UNCHANGED <<hostVars, chats, sessionState, exchanges, facts, contradictions, nextFactId, today,
                   turn, bi, rt, queueVars, episodes, open_loops>>

(* the bullet refreshCuratedFiles writes to USER.md for a fact about the user *)
UserBullet(f) == <<"-", " ">> \o f.predicate \o <<":", " ">> \o f.object

(* what the user asks *)
ProjectPrompt == <<"p", "r", "o", "j", "e", "c", "t", ":", " ", "a", "t", "l", "a", "s", " ",
    "s", "t", "a", "t", "u", "s">>
PlainPrompts == { <<"h", "e", "l", "l", "o", " ", "t", "h", "e", "r", "e">> }
RecallPrompts == { <<"w", "h", "a", "t", " ", "d", "i", "d", " ", "w", "e", " ", "d", "e", "c",
    "i", "d", "e">> }
TimeHintPrompts == { <<"s", "t", "a", "t", "u", "s", " ", "a", "s", " ", "o", "f", " ", "y", "e",
    "s", "t", "e", "r", "d", "a", "y">> }
NamedPrompts == { ProjectPrompt, <<"w", "h", "i", "c", "h", " ", "t", "i", "m", "e", " ", "z", "o", "n",
    "e">> }
Prompts == PlainPrompts \cup RecallPrompts \cup TimeHintPrompts \cup NamedPrompts

UserSubject == <<"u", "s", "e", "r">>
TimezonePredicate == <<"t", "i", "m", "e", "z", "o", "n", "e">>
TimezoneObjects == { <<"U", "T", "C", "+", "2">> }
CuratedConfidences == {62, 90}

(* what the searches of a turn find: nothing, a fact, an episode or an open loop *)
FoundRows ==
    {{}} \cup {{r} : r \in {x \in MemoryRows : x.id = 1 /\ x.type # "document"}}

(* the gate does not depend on the chat: one chat takes the turns *)
PreparedChats == {1}

NextPrepare ==
    \/ \E c \in PreparedChats, o \in TimezoneObjects, k \in CuratedConfidences :
          UpsertFact(c, UserSubject, TimezonePredicate, o, k)
    \/ \E c \in PreparedChats : RefreshCuratedFiles(c)
    \/ \E c \in PreparedChats, q \in Prompts, found \in FoundRows :
          PrepareTurnFor(c, q, found \cap RowsOfType("fact"), found \cap RowsOfType("episode"),
                         found \cap RowsOfType("loop"))

SpecPrepare == Init /\ [][NextPrepare]_vars

SectionsNonEmpty(sections) ==
    sections.stableFacts # <<>> \/ sections.episodes # <<>> \/ sections.loops # <<>>

-----------------------------------------------------------------------------
(* Claims about the scope of the memory context *)

(* the facts recorded from other chats than chatId and from them only *)
ForeignFacts(chatId) ==
    {f \in facts : /\ f.chat_id # chatId
                   /\ ~\E g \in facts : /\ g.chat_id = chatId
                                        /\ g.predicate = f.predicate
                                        /\ g.object = f.object}

(* C11: the developer instructions prepareTurn builds for one chat contain   *)
(* no fact that was recorded from a different chat only.                     *)
C11_Original ==
    ret.op = "prepareTurn" =>
        \A f \in ForeignFacts(ret.chatId) : ~Contains(ret.alwaysOn, UserBullet(f))

(* C16: a turn whose prepareTurn threw is carried on and its user is sent no *)
(* error text.                                                               *)
C16_Original ==
    \A t \in TaskIds :
        tasks[t].threw = "prepareTurn" =>
            /\ "error" \notin SeqRange(tasks[t].sent)
            /\ tasks[t].pc \notin {"failed", "settled"} \/ "answer" \in SeqRange(tasks[t].sent)

-----------------------------------------------------------------------------
(* The write pipeline with a session file that cannot be read *)

SummaryPathOf(chatId) == getSessionPaths(chatId, chats[chatId].session_no).summary

(* the environment: reading the summary file of the chat's session starts to fail *)
SummaryReadFails(chatId) ==
    /\ chats[chatId] # NoRow
    /\ fileExists(files, SummaryPathOf(chatId))
    /\ files[SummaryPathOf(chatId)].kind = "text"
    /\ files' = [files EXCEPT ![SummaryPathOf(chatId)] = [kind |-> "unreadable"]]
    /\ UNCHANGED <<hostVars, storeVars, ret, turn, bi, rt, queueVars>>

FaultUserTexts ==
    { <<"m", "y", " ", "t", "i", "m", "e", "z", "o", "n", "e", " ", "i", "s", " ",
    "U", "T", "C", "+", "2">>, <<"w", "e", " ", "u", "s", "e", " ", "v", "i", "m">> }

NextFault ==
    \/ \E c \in Chats : PrepareTurn(c)
    \/ \E c \in Chats : SummaryReadFails(c)
    \/ \E c \in Chats, u \in FaultUserTexts, a \in TurnAssistantTexts :
          RetainReflectIndex(c, u, a)

SpecFault == Init /\ [][NextFault]_vars

(* C17: a retainReflectIndex during which the read of the session summary    *)
(* file fails ends in an exception.                                          *)
C17_Original ==
    [][\A c \in Chats :
          (/\ turn[c] # NoRow
           /\ turn'[c] = NoRow
           /\ files[getSessionPaths(c, turn[c].session_no).summary].kind = "unreadable")
          => ret' = Thrown]_vars

-----------------------------------------------------------------------------
(* The open_loops table under the store's API *)

MaxLoopRows == 2
LoopTexts == { <<"c", "a", "l", "l", " ", "b", "o", "b">>, <<"f", "i", "x", " ", "c", "i">> }
LoopTagSets == { << <<"t", "o", "d", "o">> >>, << <<"b", "o", "b">> >>, << <<"t", "o", "d", "o">>, <<"b", "o", "b">>, <<"t", "o", "d", "o">> >> }
LoopConfidences == {72, 90}
LoopSourceFile == <<"m", "e", "m", "o", "r", "y", "/", "d", "a", "i", "l", "y", ".", "m",
    "d">>

LoopThrown == [op |-> "upsertOpenLoop", error |-> TRUE]

(* store.upsertOpenLoop({chatId, text, tags, confidence, sourceFile}); the   *)
(* INSERT fails on the FOREIGN KEY when the chat has no row.                 *)
UpsertOpenLoop(chatId, text, tags, confidence) ==
    /\ OpenLoopHits(open_loops, chatId, text, "open") = {} => Len(open_loops) < MaxLoopRows
    /\ IF ChatExists(chatId)
       THEN /\ open_loops' = upsertOpenLoop(open_loops, chatId, text, tags, confidence,
                                            LoopSourceFile, today)
            /\ ret' = Void
       ELSE /\ open_loops' = open_loops
            /\ ret' = LoopThrown
    /\ UNCHANGED <<hostVars, chats, sessionState, exchanges, facts, contradictions, nextFactId, today,
                   turn, bi, rt, queueVars, episodes, documents, files>>

(* store.resolveOpenLoop(chatId, text) *)
ResolveOpenLoop(chatId, text) ==
    LET res == resolveOpenLoop(open_loops, chatId, text, today) IN
    /\ open_loops' = res.open_loops
    /\ ret' = IF res.error THEN [op |-> "resolveOpenLoop", error |-> TRUE] ELSE Void
    /\ UNCHANGED <<hostVars, chats, sessionState, exchanges, facts, contradictions, nextFactId, today,
                   turn, bi, rt, queueVars, episodes, documents, files>>

NextLoops ==
    \/ \E c \in Chats : GetChatState(c)
    \/ \E c \in Chats, x \in LoopTexts, tg \in LoopTagSets, k \in LoopConfidences :
          UpsertOpenLoop(c, x, tg, k)
    \/ \E c \in Chats, x \in LoopTexts : ResolveOpenLoop(c, x)
    \/ Tick

SpecLoops == Init /\ [][NextLoops]_vars

OpenConfidences(loops, chatId, text) ==
    {loops[i].confidence : i \in OpenLoopHits(loops, chatId, text, "open")}

(* C18: an upsertOpenLoop of a text for a chat leaves exactly one open row   *)
(* of that text for the chat; its confidence is the asserted one when the    *)
(* text had no open row, and otherwise the larger of the asserted one and    *)
(* the one the open row had, so that over any number of assertions while the *)
(* loop stays open it is the maximum of all of them; no row is added when    *)
(* an open row was there.                                                    *)
C18_OneOpenRowAtMax ==
    [][\A c \in Chats, x \in LoopTexts, tg \in LoopTagSets, k \in LoopConfidences :
          (UpsertOpenLoop(c, x, tg, k) /\ ChatExists(c)) =>
             /\ Cardinality(OpenLoopHits(open_loops', c, x, "open")) = 1
             /\ Cardinality(OpenLoopHits(open_loops, c, x, "open")) <= 1
             /\ OpenConfidences(open_loops', c, x) =
                   IF OpenLoopHits(open_loops, c, x, "open") = {}
                   THEN {k}
                   ELSE {Max(k, q) : q \in OpenConfidences(open_loops, c, x)}
             /\ Len(open_loops') =
                   Len(open_loops) + (IF OpenLoopHits(open_loops, c, x, "open") = {} THEN 1 ELSE 0)]_vars

(* The first row was asserted again after the second row was inserted (its   *)
(* created_at is later), it is still the only open row of its text, and it   *)
(* holds the highest confidence.                                             *)
C18_Witness ==
    /\ Len(open_loops) = 2
    /\ open_loops[1].status = "open" /\ open_loops[2].status = "open"
    /\ open_loops[1].created_at > open_loops[2].created_at
    /\ open_loops[1].confidence = 90
    /\ OpenLoopHits(open_loops, open_loops[1].chat_id, open_loops[1].text, "open") = {1}

(* C19: an upsertOpenLoop of a text that has an open row leaves the row's    *)
(* tags equal to the union of the tags it had and the tags supplied.         *)
C19_Original ==
    [][\A c \in Chats, x \in LoopTexts, tg \in LoopTagSets, k \in LoopConfidences :
          (UpsertOpenLoop(c, x, tg, k) /\ ChatExists(c)) =>
             \A i \in OpenLoopHits(open_loops, c, x, "open") :
                SeqRange(open_loops'[i].tags) = SeqRange(open_loops[i].tags) \cup SeqRange(tg)]_vars

-----------------------------------------------------------------------------
(* One group of facts of one chat under upsertFact, decay and                *)
(* detectContradictions                                                      *)

MaxGroupFacts == 3
GroupChat == 1
GroupSubject == <<"u", "s", "e", "r">>
GroupPredicate == <<"e", "d", "i", "t", "o", "r">>
GroupObjectValues == { <<"v", "i", "m">>, <<"e", "m", "a", "c", "s">>, <<"n", "a", "n", "o">> }
GroupConfidence == 62

(* store.upsertFact of one more object for the group's subject and predicate *)
UpsertGroupFact(object) ==
    /\ \E r \in {upsertFact(facts, nextFactId, chats, GroupChat, GroupSubject, GroupPredicate,
                            object, GroupConfidence, <<>>, today, <<>>, <<>>)} :
          /\ r.nextFactId <= MaxGroupFacts + 1
          /\ facts' = r.facts
          /\ nextFactId' = r.nextFactId
          /\ ret' = r.ret
    /\ UNCHANGED <<hostVars, chats, sessionState, exchanges, contradictions, today, turn, engineVars>>

NextContradictions ==
    \/ GetChatState(GroupChat)
    \/ \E o \in GroupObjectValues : UpsertGroupFact(o)
    \/ \E d \in DaysOldValues, st \in DecaySteps : DecayFactConfidence(GroupChat, d, st)
    \/ DetectContradictions(GroupChat, ConfidenceThreshold)
    \/ Tick

SpecContradictions == Init /\ [][NextContradictions]_vars

OpenContradictions(table, chatId, subject, predicate) ==
    {c \in table : c.chat_id = chatId /\ c.subject = subject
                   /\ c.predicate = predicate /\ c.status = "open"}

(* C20: a detectContradictions run leaves every chat with at most one open   *)
(* contradiction per (subject, predicate); the row of every group it found   *)
(* holds the group's objects and the time of this run; and it adds a row     *)
(* only for a group that had no open row.                                    *)
C20_OneOpenContradictionPerGroup ==
    [][\A c \in Chats :
          DetectContradictions(c, ConfidenceThreshold) =>
             /\ \A x \in contradictions' :
                   OpenContradictions(contradictions', x.chat_id, x.subject, x.predicate) = {x}
             /\ \A g \in ret'.found :
                   \E x \in contradictions' :
                      /\ x.chat_id = c /\ x.subject = g.subject /\ x.predicate = g.predicate
                      /\ x.objects = g.objects /\ x.detected_at = today
             /\ Cardinality(contradictions') =
                   Cardinality(contradictions)
                   + Cardinality({g \in ret'.found :
                         OpenContradictions(contradictions, c, g.subject, g.predicate) = {}})]_vars

(* A run on day 1 has found the group with three objects, the last of which  *)
(* was stored on day 1 and the others on day 0, and the chat's one row for   *)
(* the group holds the three objects and the day of this run.                *)
C20_Witness ==
    /\ today = 1
    /\ ret.op = "detectContradictions"
    /\ ret.found # {}
    /\ Cardinality(contradictions) = 1
    /\ \A x \in contradictions : x.detected_at = 1 /\ Cardinality(x.objects) = 3
    /\ Cardinality({r \in facts : r.last_confirmed_at = 0}) = 2

-----------------------------------------------------------------------------
(* Turns whose text names something sensitive next to a fact *)

TimezoneUserText == <<"m", "y", " ", "t", "i", "m", "e", "z", "o", "n", "e", " ", "i", "s", " ",
    "U", "T", "C", "+", "2">>

SensitiveUserTexts ==
    { TimezoneUserText, <<"m", "y", " ", "t", "i", "m", "e", "z", "o", "n", "e", " ", "i", "s", " ",
    "U", "T", "C", "+", "2", ",", " ", "k", "e", "e", "p", " ", "i", "t",
    " ", "s", "e", "c", "r", "e", "t">> }

SensitiveAssistantTexts ==
    { <<"N", "o", "t", "e", "d", ".">>, <<"N", "o", "t", "e", "d", ",", " ", "t", "h", "e", " ", "p", "a", "s", "s",
    "w", "o", "r", "d", " ", "s", "t", "a", "y", "s", " ", "o", "u", "t",
    ".">> }

NextSensitive ==
    \/ \E c \in Chats : PrepareTurn(c)
    \/ \E c \in Chats, u \in SensitiveUserTexts, a \in SensitiveAssistantTexts :
          RetainReflectIndex(c, u, a)

SpecSensitive == Init /\ [][NextSensitive]_vars

LastExchange(ex) == ex[Len(ex)]

ExchangeText(x) == x.user_text \o <<"\n">> \o x.assistant_text

(* C21: a retainReflectIndex whose redacted user and assistant text, as the  *)
(* exchange it records holds them, matches a sensitive pattern leaves the    *)
(* facts table as it was: no row added, none confirmed or changed.           *)
C21_SensitiveTurnStoresNoFact ==
    [][(/\ Len(exchanges') = Len(exchanges) + 1
        /\ isSensitive(ExchangeText(LastExchange(exchanges'))))
       => /\ facts' = facts
          /\ nextFactId' = nextFactId]_vars

(* The user gave a timezone, the assistant's answer named a password, and    *)
(* the call returned with no fact candidate and no stored fact.              *)
C21_Witness ==
    /\ ret.op = "retainReflectIndex"
    /\ "factCount" \in DOMAIN ret
    /\ ret.factCount = 0
    /\ exchanges # <<>>
    /\ LastExchange(exchanges).user_text = TimezoneUserText
    /\ isSensitive(LastExchange(exchanges).assistant_text)
    /\ facts = {}

-----------------------------------------------------------------------------
(* Claims about what prepareTurn writes *)

SessionFilePaths(chatId, sessionNo) ==
    {getSessionPaths(chatId, sessionNo).summary, getSessionPaths(chatId, sessionNo).keyFacts}

(* C25: a prepareTurn leaves the facts, episodes, document chunks, open      *)
(* loops, contradictions and exchanges as they were, and every session-state *)
(* row with its turn count; it may add the chat's row, the row of the chat's *)
(* current session with turn count 0, and that session's two files, and it   *)
(* changes no chat row and no file that existed.                             *)
C25_PrepareTurnWritesOnlyGetOrCreate ==
    [][ret'.op = "prepareTurn" =>
         /\ UNCHANGED <<facts, nextFactId, episodes, documents, open_loops, contradictions,
                        exchanges>>
         /\ sessionState \subseteq sessionState'
         /\ \A r \in sessionState' \ sessionState :
               /\ r.chat_id = ret'.chatId
               /\ r.session_no = chats'[ret'.chatId].session_no
               /\ r.turn_count = 0
         /\ \A c \in Chats : (c # ret'.chatId \/ chats[c] # NoRow) => chats'[c] = chats[c]
         /\ \A p \in DOMAIN files : p \in DOMAIN files' /\ files'[p] = files[p]
         /\ (DOMAIN files') \ (DOMAIN files)
               \subseteq SessionFilePaths(ret'.chatId, chats'[ret'.chatId].session_no)]_vars

(* C25 witness: a prepareTurn has run for a chat whose session has a turn    *)
(* recorded, with facts, episodes and indexed chunks in the store.           *)
C25_Witness ==
    /\ ret.op = "prepareTurn"
    /\ exchanges # <<>>
    /\ facts # {} /\ episodes # <<>> /\ documents # {}
    /\ \E r \in sessionState : r.chat_id = ret.chatId /\ r.turn_count >= 1

-----------------------------------------------------------------------------
(* Opening the store on a database in any migration state *)

InitMigrate ==
    /\ InitStore
    /\ client = NewClient(TRUE)
    /\ \E n \in 0..LastMigration : MigratedTo(n)

NextMigrate ==
    \/ OpenStore
    \/ MigrationSkip
    \/ MigrationBegin
    \/ MigrationExec
    \/ MigrationRecord
    \/ MigrationCommit
    \/ MigrationsDone
    \/ ProcessExit

SpecMigrate == InitMigrate /\ [][NextMigrate]_vars

InTransaction == mig.pc \in {"exec", "record", "commit"}

CommittedSchema == IF InTransaction THEN mig.saved.schema ELSE schema

CommittedLedger == IF InTransaction THEN mig.saved.schema_migrations ELSE schema_migrations

(* C26: the committed migrations are 1, 2, .. in this order, each once; what *)
(* is committed of the ledger and of the schema is exactly theirs (a killed  *)
(* transaction leaves nothing); the migration a call has in a transaction is *)
(* the first unrecorded one; no call fails; a call that returns has left all *)
(* five applied; and a call on a fully migrated database opens no            *)
(* transaction and leaves the schema and the ledger as they were.            *)
C26_MigrationsOnceInOrder ==
    /\ migrationLog = UpTo(Len(migrationLog))
    /\ CommittedLedger = 1..Len(migrationLog)
    /\ CommittedSchema \ LedgerTable = SchemaAfter(Len(migrationLog)) \ LedgerTable
    /\ InTransaction => mig.version = Len(migrationLog) + 1
    /\ mig.pc # "failed"
    /\ mig.pc = "open" => Len(migrationLog) = LastMigration
    /\ (mig.pc \in {"next", "open"} /\ mig.applied = Versions)
          => (schema = SchemaAfter(LastMigration) /\ schema_migrations = Versions)

(* C26 witness: the store was opened on a database with migrations 1 to 3    *)
(* recorded and the call has returned with 4 and 5 applied after them.       *)
C26_Witness ==
    /\ mig.pc = "open"
    /\ mig.applied = 1..3
    /\ migrationLog = UpTo(LastMigration)
    /\ schema_migrations = Versions

-----------------------------------------------------------------------------
(* refreshCuratedFiles under a configured MEMORY_MAX_CURATED_LINES *)

MemoryLineSettings == {3, 6, 9, 300}
CuratedSubjects == { UserSubject, <<"a", "t", "l", "a", "s">> }
CuratedObjects == { <<"U", "T", "C", "+", "2">>, <<"U", "T", "C", "+", "3">> }

(* refreshCuratedFiles(chatId) of an engine configured with maxMemoryLines, *)
(* for a chat that has its row, as its callers have ensured                  *)
RefreshCuratedFilesConfigured(chatId, maxMemoryLines) ==
    /\ ChatExists(chatId)
    /\ \E r \in {refreshCuratedFilesWith(maxMemoryLines, files, facts, documents, chatId, today)} :
          /\ files' = r.files
          /\ documents' = r.documents
    /\ ret' = Void
    /\ UNCHANGED <<hostVars, chats, sessionState, exchanges, facts, contradictions, nextFactId,
                   today, turn, bi, rt, queueVars, episodes, open_loops>>

NextCurate ==
    \/ \E c \in PreparedChats : GetChatState(c)
    \/ \E c \in PreparedChats, s \in CuratedSubjects, o \in CuratedObjects,
          k \in CuratedConfidences : UpsertFact(c, s, TimezonePredicate, o, k)
    \/ \E c \in PreparedChats, m \in MemoryLineSettings : RefreshCuratedFilesConfigured(c, m)

SpecCurate == Init /\ [][NextCurate]_vars

(* the lines of a text in which every line ends with a newline *)
LineCount(text) == Cardinality({i \in 1..Len(text) : text[i] = "\n"})

(* C27: after a refreshCuratedFiles under maxMemoryLines, MEMORY.md and      *)
(* USER.md each have at most maxMemoryLines lines.                           *)
C27_Original ==
    [][\A c \in PreparedChats, m \in MemoryLineSettings :
          RefreshCuratedFilesConfigured(c, m) =>
             /\ LineCount(files'[paths.memory].text) <= m
             /\ LineCount(files'[paths.user].text) <= m]_vars

-----------------------------------------------------------------------------
(* MemoryEngine.prepareTurn over the stored facts: what a turn is told of    *)
(* the facts an earlier turn stored (src/src/dashboard.js retrieve,          *)
(* src/src/db.js searchFactsExact and searchFactsKeyword).                   *)

(* config.recencyBiasDays *)
RecencyBiasDays == 45

(* text.trim().split(/\s+/).filter(Boolean), for texts whose only white space is the blank *)
WordsOf(text) == SelectSeq(SplitOn(text, " "), LAMBDA w : w # <<>>)

(* overlapScore(queryTokens, text), in thousandths *)
overlapScore(queryTokens, text) ==
    LET textTokens == tokenize(text)
        tokenSet == {textTokens[i] : i \in 1..Len(textTokens)} IN
    IF queryTokens = <<>> \/ tokenSet = {} THEN 0
    ELSE (1000 * Cardinality({i \in 1..Len(queryTokens) : queryTokens[i] \in tokenSet}))
         \div Len(queryTokens)

(* 1 / (1 + recencyDays / recencyBiasDays) for last_confirmed_at, in thousandths *)
recencyScore(f, now) ==
    (1000 * RecencyBiasDays) \div (RecencyBiasDays + Max(0, now - f.last_confirmed_at))

(* ORDER BY confidence DESC, last_confirmed_at DESC *)
RECURSIVE FactsByConfidence(_)
FactsByConfidence(S) ==
    IF S = {} THEN <<>>
    ELSE LET r == CHOOSE x \in S : \A y \in S :
                     \/ x.confidence > y.confidence
                     \/ x.confidence = y.confidence /\ x.last_confirmed_at > y.last_confirmed_at
                     \/ x.confidence = y.confidence /\ x.last_confirmed_at = y.last_confirmed_at
                        /\ x.id <= y.id
         IN <<r>> \o FactsByConfidence(S \ {r})

InList(x, list) == \E i \in 1..Len(list) : list[i] = x

(* A slip in the WHERE clause: the predicate IN (..) branch is left out. *)
ExactFactMatchNoPredicate(f, chatId, entities, predicates, tags) ==
    /\ f.chat_id = chatId
    /\ f.active = 1
    /\ \/ InList(f.subject, entities)
       \/ \E i \in 1..Len(f.tags) : InList(f.tags[i], tags)

(* the WHERE clause of stmts.exactFacts *)
ExactFactMatch(f, chatId, entities, predicates, tags) ==
    /\ f.chat_id = chatId
    /\ f.active = 1
    /\ \/ InList(f.subject, entities)
       \/ InList(f.predicate, predicates)
       \/ \E i \in 1..Len(f.tags) : InList(f.tags[i], tags)

searchFactsExact(factTable, chatId, entities, predicates, tags, limit) ==
    IF entities = <<>> /\ predicates = <<>> /\ tags = <<>> THEN <<>>
    ELSE Slice(FactsByConfidence({f \in factTable :
                   ExactFactMatch(f, chatId, entities, predicates, tags)}), limit)

(* a fact row as retrieve scores it *)
FactCandidate(f, source, parsed, now, rank) ==
    [type |-> "fact", source |-> source, id |-> f.id, stored |-> f.confidence,
     text |-> WordsOf(FactText(f)),
     overlap |-> overlapScore(parsed.tokens, FactText(f)),
     recency |-> recencyScore(f, now), vector_score |-> 0, fts_rank |-> rank]

FactCandidates(rows, source, parsed, now, rank) ==
    [i \in 1..Len(rows) |-> FactCandidate(rows[i], source, parsed, now, rank)]

(* bm25(facts_fts) of a row the FTS index matched *)
FtsRank == -1000

(* retrieve(chatId, userQuery): the facts come from the facts table, by the  *)
(* exact search and by the keyword search (keywordFacts: the rows of the     *)
(* chat the FTS index matched); found: the episodes and open loops the other *)
(* searches returned.                                                        *)
retrieveStored(factTable, chatId, userQuery, keywordFacts, found, now, maxStableFacts, maxInjectionTokens) ==
    LET parsed == parseQuery(userQuery)
        all == FactCandidates(FactsByConfidence(keywordFacts), "keyword", parsed, now, FtsRank)
               \o Tagged(RowsToSeq(found \cap RowsOfType("episode")), "keyword")
               \o FactCandidates(searchFactsExact(factTable, chatId, parsed.entities,
                                                  parsed.predicates,
                                                  parsed.tags \o parsed.projects, 20),
                                 "exact", parsed, now, 0)
               \o Tagged(RowsToSeq(found \cap RowsOfType("loop")), "open_loop")
        ranked == filterRanked(sortByScore(mergeByKey(all, <<>>)))
        sections == sectionsWithin(ranked, maxStableFacts)
    IN [parsed |-> parsed, ranked |-> ranked, sections |-> sections,
        injection |-> buildInjection(sections, maxInjectionTokens)]

(* the rows of the chat a keyword search can match *)
ActiveFactsOf(factTable, chatId) == {f \in factTable : f.chat_id = chatId /\ f.active = 1}

(* prepareTurn(chatId, userPrompt) at the start of a turn, under a           *)
(* configured maxStableFacts and maxInjectionTokens; what it returns is kept *)
(* with the two settings it was computed under.                              *)
PrepareTurnStored(chatId, userPrompt, keywordFacts, found, maxStableFacts, maxInjectionTokens) ==
    /\ turn[chatId] = NoRow
    /\ keywordFacts \subseteq ActiveFactsOf(facts, chatId)
    /\ \E ch \in {ensureChat(chats, chatId)} :
          /\ chats' = ch
          /\ sessionState' = ensureSessionState(sessionState, chatId, ch[chatId].session_no)
          /\ files' = ensureSessionFiles(files, chatId, ch[chatId].session_no, today)
          /\ turn' = [turn EXCEPT ![chatId] = ch[chatId]]
          /\ ret' = Prepared(chatId, ch[chatId], files', userPrompt,
                             retrieveStored(facts, chatId, userPrompt, keywordFacts, found,
                                            today, maxStableFacts, maxInjectionTokens))
                    @@ [maxStableFacts |-> maxStableFacts,
                        maxInjectionTokens |-> maxInjectionTokens]
    /\ UNCHANGED <<hostVars, exchanges, facts, contradictions, nextFactId, today, bi, rt,
                   queueVars, memVars>>

(* settings of MEMORY_MAX_STABLE_FACTS and MEMORY_MAX_INJECTION_TOKENS: the *)
(* defaults, a cap of one fact, a budget of 28 tokens                       *)
RecallSettings ==
    { [maxStableFacts |-> MaxStableFacts, maxInjectionTokens |-> MaxInjectionTokens],
      [maxStableFacts |-> 1, maxInjectionTokens |-> MaxInjectionTokens],
      [maxStableFacts |-> MaxStableFacts, maxInjectionTokens |-> 28] }

StackUserText == <<"p", "r", "o", "j", "e", "c", "t", ":", " ", "a", "t", "l", "a", "s", " ",
    "i", "s", " ", "d", "o", "n", "e", ",", " ", "w", "e", " ", "u", "s",
    "e", " ", "v", "i", "m">>
RecallUserTexts == {TimezoneUserText, StackUserText}
RecallAssistantTexts == { <<"N", "o", "t", "e", "d", ".">> }

TimezoneStackQuery == <<"t", "i", "m", "e", " ", "z", "o", "n", "e", " ", "a", "n", "d", " ", "s",
    "t", "a", "c", "k">>
ToolQuery == <<"w", "h", "i", "c", "h", " ", "u", "s", "e", "s", "_", "t", "o", "o",
    "l">>
RecallQueries == {TimezoneStackQuery, ToolQuery}

(* what the keyword search matched: nothing, or every active fact of the chat *)
KeywordMatches(chatId) == {{}, ActiveFactsOf(facts, chatId)}

(* what the other searches found: nothing, or an episode and an open loop *)
FoundBeside == {{}, {x \in MemoryRows : x.id = 1 /\ x.type \in {"episode", "loop"}}}

NextRecall ==
    \/ \E c \in PreparedChats, q \in RecallQueries, found \in FoundBeside, cfg \in RecallSettings :
          \E kw \in KeywordMatches(c) :
             PrepareTurnStored(c, q, kw, found, cfg.maxStableFacts, cfg.maxInjectionTokens)
    \/ \E c \in PreparedChats, u \in RecallUserTexts, a \in RecallAssistantTexts :
          RetainReflectIndex(c, u, a)
    \/ \E c \in PreparedChats, d \in DaysOldValues, st \in DecaySteps :
          DecayFactConfidence(c, d, st)
    \/ Tick

SpecRecall == Init /\ [][NextRecall]_vars

(* the stable-fact lines of an injection: what stands between its first      *)
(* header and the first empty line                                           *)
InjectedFactLines(injection) ==
    LET stop == CHOOSE k \in 1..Len(injection) :
                    /\ injection[k] = <<>>
                    /\ \A j \in 1..(k - 1) : injection[j] # <<>>
    IN {injection[k] : k \in 2..(stop - 1)}

FactLine(f) == <<"-">> \o WordsOf(FactText(f))

(* the fact is in the background-memory block of the instructions *)
InMemoryBlock(f, instructions) ==
    /\ instructions.memory # <<>>
    /\ FactLine(f) \in InjectedFactLines(instructions.memory[2])

(* the fact is in the instructions: in the block, or its object in the always-on text *)
InInstructions(f, instructions) ==
    \/ InMemoryBlock(f, instructions)
    \/ Contains(instructions.alwaysOn, f.object)

(* the fact's place among the ranked facts, 0 when it is not among them *)
FactRank(f, ranked) ==
    LET fs == SelectSeq(ranked, IsFactEntry)
        at == {i \in 1..Len(fs) : fs[i].id = f.id}
    IN IF at = {} THEN 0 ELSE CHOOSE i \in at : TRUE

(* the facts ranked up to place n, alone in the block, are within the budget *)
FactsFit(ranked, n, maxInjectionTokens) ==
    estimateTokens(render([stableFacts |-> LinesOf(Slice(SelectSeq(ranked, IsFactEntry), n)),
                           episodes |-> <<>>, loops |-> <<>>])) <= maxInjectionTokens

(* the query names the predicate: the word stands in it, or parseQuery maps it to the predicate *)
NamesPredicate(f, prompt, parsed) ==
    \/ Contains(ToLowerCase(prompt), f.predicate)
    \/ InList(f.predicate, parsed.predicates)

RecallTurn == ret.op = "prepareTurn" /\ "maxStableFacts" \in DOMAIN ret

Recallable(f) ==
    /\ f.chat_id = ret.chatId
    /\ f.active = 1
    /\ f.confidence >= ConfidenceThreshold

C28_CutByCap ==
    /\ RecallTurn
    /\ \E f \in facts :
          /\ Recallable(f) /\ InList(f.predicate, ret.retrieval.parsed.predicates)
          /\ FactRank(f, ret.retrieval.ranked) > ret.maxStableFacts
          /\ ~InMemoryBlock(f, ret.developerInstructions)

C28_CutByBudget ==
    /\ RecallTurn
    /\ \E f \in facts :
          /\ Recallable(f) /\ InList(f.predicate, ret.retrieval.parsed.predicates)
          /\ FactRank(f, ret.retrieval.ranked) <= ret.maxStableFacts
          /\ ~InMemoryBlock(f, ret.developerInstructions)

(* reached: the tool fact, found by the keyword search and ranked first      *)
(* under the default settings, is nowhere in the instructions of a turn      *)
(* whose query holds its predicate                                           *)
C28_UnrecognisedPredicate ==
    /\ RecallTurn
    /\ ret.prompt = ToolQuery
    /\ ret.maxStableFacts = MaxStableFacts /\ ret.maxInjectionTokens = MaxInjectionTokens
    /\ \E f \in facts :
          /\ Recallable(f)
          /\ Contains(ToLowerCase(ret.prompt), f.predicate)
          /\ FactRank(f, ret.retrieval.ranked) = 1
          /\ ~InInstructions(f, ret.developerInstructions)

-----------------------------------------------------------------------------
(* Claims about the reconnecting of the app-server client *)

InitReconnect ==
    /\ InitStore
    /\ client \in {StartedClient(a) : a \in BOOLEAN}
    /\ MigratedTo(LastMigration)

NextReconnect ==
    \/ SocketClose
    \/ ServerExit
    \/ ReconnectTimerFires
    \/ ConnectOpens
    \/ ConnectFails
    \/ InitializeSucceeds
    \/ InitializeFails
    \/ RetryDelayElapsed
    \/ Shutdown

SpecReconnect == InitReconnect /\ [][NextReconnect]_vars

(* a reconnect round ends in this step with ensureConnected having thrown *)
RoundFailsStep ==
    /\ client.reconnectInProgress
    /\ ~client'.reconnectInProgress
    /\ client'.emitted = "reconnect-failed"

(* C29 as stated: while the client is not shutting down, every failed        *)
(* reconnect round is followed by another scheduled attempt: when the round  *)
(* ends the reconnect timer is set, to at most eight seconds.                *)
C29_Original ==
    [][(RoundFailsStep /\ ~client'.stopping)
       => client'.reconnectTimer \in 1..ReconnectBackoffCap]_vars

(* reached: the socket has dropped, the client is not shutting down, a round *)
(* has failed, and neither a timer nor a round is left to try again          *)
C29_NoAttemptLeft ==
    /\ client.ws = "null"
    /\ ~client.stopping
    /\ client.emitted = "reconnect-failed"
    /\ client.reconnectTimer = 0
    /\ ~client.reconnectInProgress

(* what holds of the first attempt: after a socket drop while not shutting   *)
(* down a timer is set or a round is in progress, and no timer is ever set   *)
(* beyond the cap                                                            *)
C29_DropSchedulesAttempt ==
    [][(SocketClose /\ ~client.stopping)
       => (client'.reconnectTimer \in 1..ReconnectBackoffCap \/ client'.reconnectInProgress)]_vars

-----------------------------------------------------------------------------
(* The scheduled jobs: the table under the store's API (src/src/db.js), the  *)
(* /schedule commands and the poll loop of the transport                     *)
(* (src/src/telegram.js).  Jobs are daily; times are in days.                *)

MaxScheduledJobs == 2

(* the tasks queued while the schedules are followed *)
MaxScheduleTasks == 2

(* last_run_at IS NULL *)
NeverRun == -1

(* the scope the schedules are made in, and the scopes commands come from *)
ScheduleScopes == {1}

(* computeNextRunIso({cronExpr, timezone, from}) of a daily schedule: the    *)
(* first matching time after from                                            *)
computeNextRunIso(from) == from + 1

(* A slip in the WHERE clause of listDueScheduledJobs: active = 1 is left out. *)
DueRowAnyState(r, now) == r.next_run_at <= now

(* WHERE active = 1 AND next_run_at <= ? *)
DueRow(r, now) == r.active = 1 /\ r.next_run_at <= now

(* ORDER BY next_run_at ASC, id ASC *)
RECURSIVE JobsByNextRun(_)
JobsByNextRun(S) ==
    IF S = {} THEN <<>>
    ELSE LET r == CHOOSE x \in S : \A y \in S :
                     \/ x.next_run_at < y.next_run_at
                     \/ x.next_run_at = y.next_run_at /\ x.id <= y.id
         IN <<r>> \o JobsByNextRun(S \ {r})

listDueScheduledJobs(table, now, limit) ==
    Slice(JobsByNextRun({r \in table : DueRow(r, now)}), limit)

(* markScheduledJobRun(id, {lastRunAt, nextRunAt}) *)
markScheduledJobRun(table, id, lastRunAt, nextRunAt) ==
    {IF r.id = id THEN [r EXCEPT !.last_run_at = lastRunAt, !.next_run_at = nextRunAt] ELSE r :
        r \in table}

(* createScheduleForScope: store.getChatState(scope), then                   *)
(* store.createScheduledJob with nextRunAt computed from now                 *)
CreateScheduledJob(scopedChatId) ==
    LET ch == ensureChat(chats, scopedChatId) IN
    /\ nextJobId <= MaxScheduledJobs
    /\ chats' = ch
    /\ sessionState' = ensureSessionState(sessionState, scopedChatId, ch[scopedChatId].session_no)
    /\ scheduled_jobs' = scheduled_jobs \cup
          {[id |-> nextJobId, scoped_chat_id |-> scopedChatId, active |-> 1,
            last_run_at |-> NeverRun, next_run_at |-> computeNextRunIso(today)]}
    /\ nextJobId' = nextJobId + 1
    /\ ret' = [op |-> "createScheduledJob", id |-> nextJobId]
    /\ UNCHANGED <<schema_migrations, schema, migrationLog, mig, processVars, scheduleRunningJobIds,
                   exchanges, facts, contradictions, nextFactId, today, turn, engineVars>>

(* /schedule pause <id> and /schedule resume <id>:                           *)
(* store.setScheduledJobActive(id, scope, active)                            *)
SetScheduledJobActive(id, scopedChatId, active) ==
    /\ scheduled_jobs' = {IF r.id = id /\ r.scoped_chat_id = scopedChatId
                             THEN [r EXCEPT !.active = IF active THEN 1 ELSE 0]
                             ELSE r : r \in scheduled_jobs}
    /\ ret' = [op |-> "setScheduledJobActive",
               changed |-> \E r \in scheduled_jobs : r.id = id /\ r.scoped_chat_id = scopedChatId]
    /\ UNCHANGED <<schema_migrations, schema, migrationLog, mig, processVars, nextJobId,
                   scheduleRunningJobIds, storeVars, turn, engineVars>>

(* /schedule remove <id>: store.deleteScheduledJob(id, scope) *)
DeleteScheduledJob(id, scopedChatId) ==
    /\ scheduled_jobs' = {r \in scheduled_jobs : ~(r.id = id /\ r.scoped_chat_id = scopedChatId)}
    /\ ret' = [op |-> "deleteScheduledJob",
               changed |-> \E r \in scheduled_jobs : r.id = id /\ r.scoped_chat_id = scopedChatId]
    /\ UNCHANGED <<schema_migrations, schema, migrationLog, mig, processVars, nextJobId,
                   scheduleRunningJobIds, storeVars, turn, engineVars>>

(* the task enqueue(job.scoped_chat_id, ..) submits: it keeps the row the poll read *)
JobTask(job, prev) ==
    [chatId |-> job.scoped_chat_id, prev |-> prev, pc |-> "jobQueued", state |-> NoRow,
     sent |-> <<>>, threw |-> "nothing", job |-> job]

(* the body of the poll's loop over the due rows, for the rows still to go:  *)
(* a row whose id is running is skipped; the others are marked running, get  *)
(* last_run_at and the next run, and their run is queued in their scope      *)
RECURSIVE pollDue(_, _, _)
pollDue(due, now, st) ==
    IF due = <<>> THEN st
    ELSE LET job == Head(due) IN
         IF job.id \in st.running THEN pollDue(Tail(due), now, st)
         ELSE pollDue(Tail(due), now,
                 [running |-> st.running \cup {job.id},
                  table |-> markScheduledJobRun(st.table, job.id, now, computeNextRunIso(now)),
                  tasks |-> Append(st.tasks, JobTask(job, st.queue[job.scoped_chat_id])),
                  queue |-> [st.queue EXCEPT ![job.scoped_chat_id] = Len(st.tasks) + 1]])

(* pollScheduledJobs() *)
PollScheduledJobs ==
    \E st \in {pollDue(listDueScheduledJobs(scheduled_jobs, today, 12), today,
                       [running |-> scheduleRunningJobIds, table |-> scheduled_jobs,
                        tasks |-> tasks, queue |-> queueByChat])} :
       /\ Len(st.tasks) <= MaxScheduleTasks
       /\ scheduleRunningJobIds' = st.running
       /\ scheduled_jobs' = st.table
       /\ tasks' = st.tasks
       /\ queueByChat' = st.queue
       /\ ret' = Void
       /\ UNCHANGED <<schema_migrations, schema, migrationLog, mig, processVars, nextJobId,
                      storeVars, files, turn, bi, rt>>

IsJobTask(t) == "job" \in DOMAIN tasks[t]

(* the queued run starts: runScheduledJobNow up to the awaited               *)
(* codex.ensureThread, that is memory.prepareTurn for the job's scope        *)
JobTaskStart(t) ==
    LET chatId == tasks[t].chatId
        ch == ensureChat(chats, chatId)
    IN
    /\ tasks[t].pc = "jobQueued"
    /\ PrevSettled(t)
    /\ chats' = ch
    /\ sessionState' = ensureSessionState(sessionState, chatId, ch[chatId].session_no)
    /\ files' = ensureSessionFiles(files, chatId, ch[chatId].session_no, today)
    /\ tasks' = [tasks EXCEPT ![t] = [@ EXCEPT !.pc = "jobPrepared", !.state = ch[chatId]]]
    /\ ret' = Void
    /\ UNCHANGED <<hostVars, exchanges, facts, contradictions, nextFactId, today, turn, bi, rt,
                   queueByChat, memVars>>

(* ensureThread returned: store.setThreadId when the thread is another, and  *)
(* codex.runTurn is awaited                                                  *)
JobTaskEnsureThread(t, threadId) ==
    LET chatId == tasks[t].chatId IN
    /\ tasks[t].pc = "jobPrepared"
    /\ chats' = IF threadId # tasks[t].state.thread_id
                THEN [chats EXCEPT ![chatId] = [@ EXCEPT !.thread_id = threadId]]
                ELSE chats
    /\ tasks' = [tasks EXCEPT ![t] =
                    [@ EXCEPT !.pc = "jobRunning", !.state = [@ EXCEPT !.thread_id = threadId]]]
    /\ ret' = Void
    /\ UNCHANGED <<hostVars, sessionState, exchanges, facts, contradictions, nextFactId, today,
                   turn, bi, rt, queueByChat, memVars, files>>

ScheduledUserText == <<"[", "s", "c", "h", "e", "d", "u", "l", "e", "d", ":", "r", "e", "p", "o",
    "r", "t", "]", " ", "S", "e", "n", "d", " ", "m", "o", "r", "n", "i",
    "n", "g", " ", "r", "e", "p", "o", "r", "t">>
ScheduledAssistantText == <<"A", "l", "l", " ", "q", "u", "i", "e", "t", ".">>

(* the run's answer was sent: memory.retainReflectIndex, and when it returns *)
(* the finally block takes the id out of scheduleRunningJobIds and the       *)
(* queued task settles; when it throws the catch block sends the error       *)
JobTaskRetain(t) ==
    LET chatId == tasks[t].chatId IN
    /\ tasks[t].pc = "jobRunning"
    /\ \E r \in {retainReflectIndex(
                     [chats |-> chats, sessionState |-> sessionState,
                      exchanges |-> exchanges, facts |-> facts,
                      nextFactId |-> nextFactId, episodes |-> episodes,
                      open_loops |-> open_loops, documents |-> documents],
                     files, chatId, tasks[t].state, ScheduledUserText, ScheduledAssistantText,
                     buildWorkingMemory(ScheduledUserText), today)} :
          /\ sessionState' = r.db.sessionState
          /\ exchanges' = r.db.exchanges
          /\ facts' = r.db.facts
          /\ nextFactId' = r.db.nextFactId
          /\ episodes' = r.db.episodes
          /\ open_loops' = r.db.open_loops
          /\ documents' = r.db.documents
          /\ files' = r.files
          /\ ret' = r.ret
          /\ IF r.ret = Thrown
             THEN /\ tasks' = [tasks EXCEPT ![t] = [@ EXCEPT !.pc = "jobFailed",
                                                             !.threw = "retainReflectIndex"]]
                  /\ UNCHANGED <<scheduleRunningJobIds, queueByChat>>
             ELSE /\ tasks' = [tasks EXCEPT ![t] = [@ EXCEPT !.pc = "settled",
                                                             !.sent = Append(@, "answer")]]
                  /\ scheduleRunningJobIds' = scheduleRunningJobIds \ {tasks[t].job.id}
                  /\ queueByChat' = clearTail(queueByChat, chatId, t)
    /\ UNCHANGED <<schema_migrations, schema, migrationLog, mig, processVars, scheduled_jobs,
                   nextJobId, chats, contradictions, today, turn, bi, rt>>

(* an await of the run throws: the catch block sends the error to the chat *)
JobTaskFail(t) ==
    /\ tasks[t].pc \in {"jobPrepared", "jobRunning"}
    /\ tasks' = [tasks EXCEPT ![t] = [@ EXCEPT !.pc = "jobFailed", !.threw = "await"]]
    /\ UNCHANGED <<hostVars, storeVars, files, ret, turn, bi, rt, queueByChat>>

(* the error was sent: the finally block takes the id out of                 *)
(* scheduleRunningJobIds and the queued task settles                         *)
JobTaskSettle(t) ==
    /\ tasks[t].pc = "jobFailed"
    /\ tasks' = [tasks EXCEPT ![t] = [@ EXCEPT !.pc = "settled", !.sent = Append(@, "error")]]
    /\ scheduleRunningJobIds' = scheduleRunningJobIds \ {tasks[t].job.id}
    /\ queueByChat' = clearTail(queueByChat, tasks[t].chatId, t)
    /\ UNCHANGED <<schema_migrations, schema, migrationLog, mig, processVars, scheduled_jobs,
                   nextJobId, storeVars, files, ret, turn, bi, rt>>

JobIds == 1..MaxScheduledJobs

(* the thread ensureThread returns for a scheduled run *)
JobThreadIds == {"t1"}

(* The schedules of one scope, commands from any scope, the poll loop, and   *)
(* the turns of users queued in the same scope                               *)
NextSchedule ==
    \/ \E c \in ScheduleScopes : CreateScheduledJob(c)
    \/ \E id \in JobIds, c \in Chats, a \in BOOLEAN : SetScheduledJobActive(id, c, a)
    \/ \E id \in JobIds, c \in Chats : DeleteScheduledJob(id, c)
    \/ PollScheduledJobs
    \/ \E t \in TaskIds : JobTaskStart(t)
    \/ \E t \in TaskIds, th \in JobThreadIds : JobTaskEnsureThread(t, th)
    \/ \E t \in TaskIds : JobTaskRetain(t)
    \/ \E t \in TaskIds : JobTaskFail(t)
    \/ \E t \in TaskIds : JobTaskSettle(t)
    \/ \E c \in ScheduleScopes : Len(tasks) < MaxScheduleTasks /\ Enqueue(c)
    \/ \E t \in TaskIds : TaskStart(t)
    \/ \E t \in TaskIds : TaskFail(t)
    \/ \E t \in TaskIds : TaskSettle(t)
    \/ Tick

SpecSchedule == Init /\ [][NextSchedule]_vars

(* the row of a task's job as the table has it now, if it has it *)
RowOfJob(id) == {r \in scheduled_jobs : r.id = id}

C30_RunsPausedJob ==
    \E t \in TaskIds :
       /\ IsJobTask(t) /\ tasks[t].pc = "jobPrepared"
       /\ \E r \in RowOfJob(tasks[t].job.id) : r.active = 0 /\ r.last_run_at # NeverRun

C30_RunsDeletedJob ==
    \E t \in TaskIds :
       /\ IsJobTask(t) /\ tasks[t].pc = "jobPrepared"
       /\ RowOfJob(tasks[t].job.id) = {}

-----------------------------------------------------------------------------
(* /newsession while a turn of the chat is in flight (src/src/telegram.js    *)
(* bot.command('newsession'), runPromptTurn).  The command is handled at     *)
(* once, outside the queue of the chat: store.startNewSession runs between   *)
(* two steps of a queued turn.                                               *)

NextReset ==
    \/ \E c \in TurnScopes : Enqueue(c)
    \/ \E t \in TaskIds : TaskStart(t)
    \/ \E t \in TaskIds : TaskPrepareTurn(t)
    \/ \E t \in TaskIds, th \in ThreadIds : TaskEnsureThread(t, th)
    \/ \E t \in TaskIds : TaskRetain(t)
    \/ \E t \in TaskIds : TaskFail(t)
    \/ \E t \in TaskIds : TaskSettle(t)
    \/ \E c \in TurnScopes : StartNewSession(c)

SpecReset == Init /\ [][NextReset]_vars

(* the turn of task t gets its thread back from ensureThread in this step *)
EnsureThreadStep(t) == tasks[t].pc = "prepared" /\ tasks'[t].pc = "running"

(* task t called prepareTurn before the chat's latest startNewSession *)
BeganBeforeReset(t) ==
    /\ tasks[t].state # NoRow
    /\ tasks[t].state.session_no < chats[tasks[t].chatId].session_no

C31_UndoneByEarlierTurn ==
    \E c \in TurnScopes : \E t \in TaskIds :
        /\ tasks[t].chatId = c
        /\ tasks[t].pc = "running"
        /\ BeganBeforeReset(t)
        /\ chats[c].thread_id # NullThread
        /\ chats[c].thread_id = tasks[t].state.thread_id

-----------------------------------------------------------------------------
(* The resolution scan of retainReflectIndex on a loop text that was         *)
(* resolved before (src/src/db.js open_loops UNIQUE(chat_id, text, status),  *)
(* stmts.resolveOpenLoop; src/src/dashboard.js retainReflectIndex)           *)

(* retainReflectIndex of chat c returns or throws in this step *)
RetainStep(c) == turn[c] # NoRow /\ turn'[c] = NoRow

(* the texts of the chat's loops that have both an open and a resolved row *)
ReopenedTexts(loops, c) ==
    {loops[i].text : i \in {j \in 1..Len(loops) :
        /\ loops[j].chat_id = c
        /\ loops[j].status = "open"
        /\ OpenLoopHits(loops, c, loops[j].text, "resolved") # {}}}

(* C32 as stated: no retainReflectIndex ends in an exception with a loop     *)
(* text that was resolved, and asserted again, left open.                    *)
C32_Original ==
    [][\A c \in Chats :
          RetainStep(c) => ~(ret' = Thrown /\ ReopenedTexts(open_loops', c) # {})]_vars

(* the write pipeline was aborted by the resolution scan: the exchange is    *)
(* recorded, the loop is open beside its resolved row, and the turn's daily  *)
(* journal was not indexed                                                   *)
C32_PipelineAborted ==
    /\ ret = Thrown
    /\ \E c \in Chats :
         /\ ReopenedTexts(open_loops, c) # {}
         /\ Len(SessionExchanges(exchanges, c, 1)) = 2

-----------------------------------------------------------------------------
(* Claims about the requests of the app-server client *)

RequestIds == 1..MaxRequests

NextRequests ==
    \/ \E throws \in BOOLEAN : SendRequest(throws)
    \/ \E id \in RequestIds, err \in BOOLEAN : SendCallback(id, err)
    \/ \E id \in RequestIds, isError \in BOOLEAN : HandleMessage(id, isError)
    \/ \E id \in RequestIds : RequestTimeout(id)
    \/ SocketClose
    \/ StaleSocketClose
    \/ DemandConnectOpens
    \/ Shutdown
    \/ ServerExit
    \/ ReconnectTimerFires
    \/ ConnectOpens
    \/ ConnectFails
    \/ InitializeSucceeds
    \/ InitializeFails
    \/ RetryDelayElapsed

(* the timeout of a request runs in the end unless it was cleared *)
SpecRequests ==
    /\ InitReconnect
    /\ [][NextRequests]_vars
    /\ \A id \in RequestIds : WF_vars(RequestTimeout(id))

SettledBy == {"response", "error response", "timeout", "send error", "socket close", "shutdown"}

(* a request is in the pending map, with its timeout set, exactly while its  *)
(* promise is not settled, and what settled it is one of the six causes      *)
PendingIffUnsettled ==
    /\ client.pending \subseteq 1..Len(requests)
    /\ \A id \in 1..Len(requests) :
         /\ id \in client.pending <=> requests[id].by = "none"
         /\ id \in client.pending <=> requests[id].timer
         /\ requests[id].by \in SettledBy \cup {"none"}

(* what settled a promise stays what settled it *)
SettledStays ==
    \A id \in 1..Len(requests) :
        requests[id].by # "none" => requests'[id].by = requests[id].by

(* C33: every request sent is settled exactly once, by its response, its     *)
(* timeout, a send error, a socket close or shutdown: while it is not        *)
(* settled it is in the pending map with its timeout set, once settled it is *)
(* out of the map and stays settled by the same cause, and it is settled in  *)
(* the end; right after the handler of a socket close and right after        *)
(* shutdown the pending map is empty.                                        *)
C33_SettledOnceAndCleared ==
    /\ []PendingIffUnsettled
    /\ [][SettledStays]_vars
    /\ [][(SocketClose \/ StaleSocketClose \/ Shutdown) => client'.pending = {}]_vars
    /\ \A id \in RequestIds : [](id \in client.pending => <>(id \notin client.pending))

(* C33 witness: of two requests sent on one socket the first was answered    *)
(* and the second, still pending when the socket closed, was rejected by the *)
(* close handler; the map is empty.                                          *)
C33_Witness ==
    /\ Len(requests) = 2
    /\ requests[1].by = "response"
    /\ requests[2].by = "socket close"
    /\ client.pending = {}
    /\ client.emitted = "connection-lost"

(* reached: reject is called a second time on a settled promise (the socket  *)
(* closed, then the callback of ws.send reported its error); the promise     *)
(* stays rejected by the close                                               *)
C33_SecondRejectIgnored ==
    \E id \in 1..Len(requests) :
        /\ requests[id].calls = 2
        /\ requests[id].by = "socket close"
        /\ requests[id].sent = "failed"

-----------------------------------------------------------------------------
(* The queue of a chat with tasks that throw (src/src/telegram.js queue,     *)
(* enqueue; src/src/dashboard.js enqueueScope has the same chain).  The      *)
(* callback given to then() runs once the promise before it has settled.     *)

QueueThreadIds == {"t1"}

NextDrain ==
    \/ \E c \in Chats : Enqueue(c)
    \/ \E t \in TaskIds : TaskStart(t)
    \/ \E t \in TaskIds : TaskPrepareTurn(t)
    \/ \E t \in TaskIds : TaskPrepareTurnThrows(t, "getChatState")
    \/ \E t \in TaskIds, th \in QueueThreadIds : TaskEnsureThread(t, th)
    \/ \E t \in TaskIds : TaskRetain(t)
    \/ \E t \in TaskIds : TaskFail(t)
    \/ \E t \in TaskIds : TaskSettle(t)

SpecDrain ==
    /\ Init
    /\ [][NextDrain]_vars
    /\ \A t \in 1..MaxTasks : WF_vars(t \in TaskIds /\ TaskStart(t))

(* the tasks of a chat, and the last of them *)
TasksOf(c) == {t \in TaskIds : tasks[t].chatId = c}
LastTaskOf(c) == CHOOSE t \in TasksOf(c) : \A u \in TasksOf(c) : u <= t

(* the map holds for a chat the promise of its last task until that task has *)
(* settled, and no entry once it has                                         *)
QueueEntryIsUnsettledTail ==
    \A c \in Chats :
        IF TasksOf(c) = {} \/ tasks[LastTaskOf(c)].pc = "settled"
        THEN queueByChat[c] = 0
        ELSE queueByChat[c] = LastTaskOf(c)

(* the tasks enqueued for the chat of task t before it *)
EarlierTasks(t) == {u \in TasksOf(tasks[t].chatId) : u < t}

AllEarlierSettled(t) == \A u \in EarlierTasks(t) : tasks[u].pc = "settled"

(* a task is chained on the task enqueued before it for its chat, or on      *)
(* Promise.resolve() when the map had no entry: every earlier task of the    *)
(* chat had settled                                                          *)
ChainedOnPrevious ==
    \A t \in TaskIds :
        IF tasks[t].prev = 0 THEN AllEarlierSettled(t)
        ELSE /\ tasks[t].prev \in EarlierTasks(t)
             /\ \A u \in EarlierTasks(t) : u <= tasks[t].prev

(* C34: a task that throws or rejects does not block the queue of its chat:  *)
(* every task is chained on the one enqueued before it for its chat and      *)
(* starts in the end once all the earlier tasks of the chat have settled,    *)
(* whether they failed or not, and the entry of the chat is removed from the *)
(* map when its last task settles.                                           *)
C34_QueueDrains ==
    /\ []ChainedOnPrevious
    /\ []QueueEntryIsUnsettledTail
    /\ \A t \in 1..MaxTasks :
         (t \in TaskIds /\ tasks[t].pc = "queued" /\ AllEarlierSettled(t))
            ~> (t \in TaskIds /\ tasks[t].pc # "queued")

(* C34 witness: a task threw, the next task of the chat has run after it,    *)
(* and with the last task of the chat settled the map has no entry for it.   *)
C34_Witness ==
    \E c \in Chats : \E t \in TasksOf(c) : \E u \in TasksOf(c) :
        /\ t < u
        /\ tasks[t].threw # "nothing" /\ tasks[t].pc = "settled"
        /\ tasks[u].threw = "nothing" /\ tasks[u].pc = "settled"
        /\ u = LastTaskOf(c)
        /\ queueByChat[c] = 0

-----------------------------------------------------------------------------
(* The heartbeat (src/src/dashboard.js MemoryEngine.runHeartbeat) and its    *)
(* callers: the interval timer of src/src/index.js and the /heartbeat        *)
(* command of src/src/telegram.js.                                           *)

HeartbeatDecayDays == 45
HeartbeatDecayStep == 4
HeartbeatCompressOlderThanDays == 7
MaxHeartbeats == 3

(* getChatIds(): SELECT chat_id FROM chats ORDER BY chat_id ASC *)
RECURSIVE IdsAscending(_)
IdsAscending(S) ==
    IF S = {} THEN <<>>
    ELSE LET c == CHOOSE x \in S : \A y \in S : x <= y IN <<c>> \o IdsAscending(S \ {c})

getChatIds(ch) == IdsAscending({c \in Chats : ch[c] # NoRow})

(* the daily journals compressDailyToWeekly folds into weekly summaries:     *)
(* those of the days at or before the cutoff                                 *)
CompressibleDays(fs, now) ==
    {d \in 0..MaxDay : d <= now - HeartbeatCompressOlderThanDays /\ fileExists(fs, getDailyFile(d))}

(* stmts.decayFacts on a table *)
decayFacts(table, chatId, daysOld, decayStep) ==
    {IF IsStale(r, chatId, daysOld)
        THEN [r EXCEPT !.confidence = decayedConfidence(@, decayStep)]
        ELSE r : r \in table}

(* stmts.contradictionCandidates on a table *)
contradictionCandidatesIn(table, chatId, minConfidence) ==
    LET pool == {r \in table : r.chat_id = chatId /\ r.active = 1 /\ r.confidence >= minConfidence} IN
    {g \in {[subject |-> r.subject, predicate |-> r.predicate,
             objects |-> {q.object : q \in {x \in pool : x.subject = r.subject
                                                         /\ x.predicate = r.predicate}}] :
            r \in pool} :
        Cardinality(g.objects) > 1}

(* the body of the loop of runHeartbeat for one chat *)
heartbeatChat(h, chatId, now) ==
    LET decayed == decayFacts(h.facts, chatId, HeartbeatDecayDays, HeartbeatDecayStep)
        found == contradictionCandidatesIn(decayed, chatId, ConfidenceThreshold)
        cur == refreshCuratedFiles(h.files, decayed, h.documents, chatId, now)
        d1 == indexDocument(cur.documents, cur.files, chatId, paths.memory,
                            << <<"c", "a", "n", "o", "n", "i", "c", "a", "l">>,
                               <<"m", "e", "m", "o", "r", "y">> >>, now)
    IN [facts |-> decayed,
        contradictions |-> insertContradictions(h.contradictions, chatId, found, now),
        files |-> cur.files,
        documents |-> indexDocument(d1, cur.files, chatId, paths.user,
                                    << <<"c", "a", "n", "o", "n", "i", "c", "a", "l">>,
                                       <<"u", "s", "e", "r">> >>, now),
        contradictionCount |-> h.contradictionCount + Cardinality(found)]

RECURSIVE heartbeatChats(_, _, _)
heartbeatChats(h, ids, now) ==
    IF ids = <<>> THEN h
    ELSE heartbeatChats(heartbeatChat(h, Head(ids), now), Tail(ids), now)

(* the line runHeartbeat appends to the heartbeat log *)
HeartbeatLine(now, weeklyUpdated, contradictionCount, chatCount) ==
    <<"[">> \o toISOString(now) \o <<"]", " ", "h", "e", "a", "r", "t", "b", "e", "a", "t", " ",
      "w", "e", "e", "k", "l", "y", "_", "s", "u", "m", "m", "a", "r", "i", "e", "s", "=">>
    \o NumText(weeklyUpdated)
    \o <<" ", "c", "o", "n", "t", "r", "a", "d", "i", "c", "t", "i", "o", "n", "s", "=">>
    \o NumText(contradictionCount)
    \o <<" ", "c", "h", "a", "t", "s", "=">> \o NumText(chatCount)

(* runHeartbeat() on the tables and the files, with no daily journal old     *)
(* enough to be compressed: what it leaves and what it returns               *)
runHeartbeat(ch, factTable, contras, fs, docs, now) ==
    LET ids == getChatIds(ch)
        weeklyUpdated == 0
        deduped == factTable \ UNION {g \ {KeptRow(g)} : g \in duplicateFactRows}
        h == heartbeatChats([facts |-> deduped, contradictions |-> contras, files |-> fs,
                             documents |-> docs, contradictionCount |-> 0], ids, now)
    IN [facts |-> h.facts, contradictions |-> h.contradictions, documents |-> h.documents,
        files |-> appendText(h.files, paths.heartbeatLog,
                             HeartbeatLine(now, weeklyUpdated, h.contradictionCount, Len(ids))
                             \o Newline),
        ret |-> [op |-> "runHeartbeat", weeklyUpdated |-> weeklyUpdated,
                 contradictionCount |-> h.contradictionCount, chatCount |-> Len(ids)]]

HeartbeatLog == readText(files, paths.heartbeatLog, <<>>)

(* the heartbeats run so far: the lines of the log *)
HeartbeatRuns == Len(SelectSeq(HeartbeatLog, LAMBDA ch : ch = "\n"))

(* memory.runHeartbeat() as its callers call it *)
RunHeartbeat ==
    /\ HeartbeatRuns < MaxHeartbeats
    /\ CompressibleDays(files, today) = {}
    /\ \E r \in {runHeartbeat(chats, facts, contradictions, files, documents, today)} :
          /\ facts' = r.facts
          /\ contradictions' = r.contradictions
          /\ documents' = r.documents
          /\ files' = r.files
          /\ ret' = r.ret
    /\ UNCHANGED <<schema_migrations, schema, migrationLog, mig, client, requests, scheduled_jobs,
                   nextJobId, scheduleRunningJobIds, chats, sessionState, exchanges, nextFactId,
                   today, turn, bi, rt, queueVars, episodes, open_loops>>

(* the callback of heartbeatTimer = setInterval(.., heartbeatMs) *)
HeartbeatTimer ==
    /\ today >= heartbeatDue
    /\ heartbeatDue' = today + HeartbeatEveryDays
    /\ RunHeartbeat

(* bot.command('heartbeat') from an allowed user *)
HeartbeatCommand ==
    /\ RunHeartbeat
    /\ UNCHANGED heartbeatDue

(* A database that has been in use: a chat with a fact about its user that   *)
(* was last confirmed sixty days before the process started.                 *)
OldFactAgeDays == 60
OldFactDay == 0 - OldFactAgeDays
OldFactConfidence == 90

OldFacts ==
    upsertFact({}, 1, ensureChat([c \in Chats |-> NoRow], 1), 1, UserSubject, TimezonePredicate,
               <<"U", "T", "C", "+", "2">>, OldFactConfidence, <<>>, OldFactDay, <<>>, <<>>)

InitHeartbeat ==
    /\ chats = ensureChat([c \in Chats |-> NoRow], 1)
    /\ sessionState = ensureSessionState({}, 1, 1)
    /\ exchanges = <<>>
    /\ facts = OldFacts.facts
    /\ contradictions = {}
    /\ nextFactId = OldFacts.nextFactId
    /\ today = 0
    /\ ret = Void
    /\ turn = [c \in Chats |-> NoRow]
    /\ bi = [pc |-> "idle"]
    /\ rt = [pc |-> "idle"]
    /\ queueByChat = [c \in Chats |-> 0]
    /\ tasks = <<>>
    /\ episodes = <<>>
    /\ open_loops = <<>>
    /\ documents = {}
    /\ files = InitialFiles
    /\ scheduled_jobs = {}
    /\ nextJobId = 1
    /\ scheduleRunningJobIds = {}
    /\ requests = <<>>
    /\ heartbeatDue = HeartbeatEveryDays
    /\ client = StartedClient(TRUE)
    /\ MigratedTo(LastMigration)

NextHeartbeat ==
    \/ HeartbeatTimer
    \/ HeartbeatCommand
    \/ \E c \in Chats : GetChatState(c)
    \/ \E c \in Chats, o \in CuratedObjects, k \in CuratedConfidences :
          UpsertFact(c, UserSubject, TimezonePredicate, o, k)
    \/ Tick

SpecHeartbeat == InitHeartbeat /\ [][NextHeartbeat]_vars

(* a heartbeat has already run on this day: the log has a line of today *)
RanToday == Contains(HeartbeatLog, <<"[">> \o toISOString(today) \o <<"]">>)

(* this step lowers the confidence of a fact *)
DecaysFact ==
    \E r \in facts : \E q \in facts' : q.id = r.id /\ q.confidence < r.confidence

(* C35 as stated: a heartbeat that one of its callers runs on a day on which *)
(* a heartbeat has already run decays no fact.                               *)
C35_Original ==
    [][((HeartbeatTimer \/ HeartbeatCommand) /\ RanToday) => ~DecaysFact]_vars

(* reached: on the day the process started the stale fact has lost two decay *)
(* steps, to two runs of /heartbeat                                          *)
C35_DecayedTwiceInADay ==
    /\ today = 0
    /\ HeartbeatRuns = 2
    /\ \E r \in facts :
         /\ r.last_confirmed_at = OldFactDay
         /\ r.confidence = OldFactConfidence - 2 * HeartbeatDecayStep

-----------------------------------------------------------------------------
(* Decay of facts stored with any confidence: the insert of upsertFact       *)
(* stores the confidence it is given, also one below the floor of the decay  *)
(* (src/src/db.js upsertFact, stmts.decayFacts)                              *)

StoredConfidences == {5, 13, 62}

NextDecay ==
    \/ \E c \in Chats : GetChatState(c)
    \/ \E c \in Chats, s \in Subjects, p \in Predicates, k \in StoredConfidences :
          UpsertFact(c, s, p, <<"t">>, k)
    \/ \E c \in Chats, d \in DaysOldValues, st \in DecaySteps : DecayFactConfidence(c, d, st)
    \/ Tick

SpecDecay == Init /\ [][NextDecay]_vars

(* the row of facts' with the id of row r *)
RowAfter(r) == CHOOSE q \in facts' : q.id = r.id

(* C36 as stated: decayFactConfidence leaves no fact with a confidence above *)
(* the one it had.                                                           *)
C36_Original ==
    [][\A c \in Chats, d \in DaysOldValues, st \in DecaySteps :
          DecayFactConfidence(c, d, st) =>
             \A r \in facts : RowAfter(r).confidence <= r.confidence]_vars

(* C36: decayFactConfidence does not increase the confidence of a fact       *)
(* stored at or above the floor of 0.1; a stale active fact of the chat      *)
(* stored below the floor is raised to the floor, and every other fact       *)
(* keeps its confidence.                                                     *)
C36_NoIncreaseAtOrAboveFloor ==
    [][\A c \in Chats, d \in DaysOldValues, st \in DecaySteps :
          DecayFactConfidence(c, d, st) =>
             \A r \in facts :
                 /\ r.confidence >= DecayFloor => RowAfter(r).confidence <= r.confidence
                 /\ (r.confidence < DecayFloor /\ IsStale(r, c, d)) =>
                        RowAfter(r).confidence = DecayFloor
                 /\ ~IsStale(r, c, d) => RowAfter(r).confidence = r.confidence]_vars

(* C36 witness: a decay has just left a fact stored above the floor lower    *)
(* than it was stored, beside a fact stored below the floor.                 *)
C36_Witness ==
    /\ ret = Void
    /\ today = 1
    /\ \E r \in facts : r.confidence = 62 - 30 /\ r.last_confirmed_at = 0
    /\ \E r \in facts : r.confidence <= DecayFloor /\ r.last_confirmed_at = 0

(* reached: a fact stored at 0.05 stands at 0.1 after a decay *)
C36_RaisedToFloor ==
    /\ today = 1
    /\ \E r \in facts : r.confidence = DecayFloor /\ r.last_confirmed_at = 0
    /\ \A r \in facts : r.last_confirmed_at = 0 /\ r.confidence \in {DecayFloor, 5}

-----------------------------------------------------------------------------
(* Re-indexing a file after it became shorter: indexDocument upserts the     *)
(* chunks of the current text and deletes nothing                            *)
(* (src/src/dashboard.js indexDocument, src/src/db.js upsertDocumentChunk).  *)
(* SOUL.md is a file of the memory root its owner edits; the code writes it  *)
(* only when it is missing.                                                  *)

LongTextLen == 770
StepOfChunks == ChunkSize - ChunkOverlap

(* A text of two chunks: the second chunk is its characters after the 760th *)
LongText == [i \in 1..LongTextLen |-> IF i <= StepOfChunks THEN "a" ELSE "b"]
ShortText == <<"c", " ", "d", "\n">>
BlankText == <<" ", "\n">>
FileTexts == {LongText, ShortText, BlankText}
SoulTags == <<"canonical", "soul">>

(* the owner of the memory root saves SOUL.md with a new text *)
EditFile(text) ==
    /\ readText(files, paths.soul, <<>>) # text
    /\ files' = writeText(files, paths.soul, text)
    /\ ret' = Void
    /\ UNCHANGED <<hostVars, storeVars, turn, bi, rt, queueVars>>

(* engine.indexDocument(chatId, paths.soul, ['canonical', 'soul']) for a     *)
(* chat that has its row (documents.chat_id REFERENCES chats)                *)
IndexDocument(chatId) ==
    /\ chats[chatId] # NoRow
    /\ documents' = indexDocument(documents, files, chatId, paths.soul, SoulTags, today)
    /\ ret' = Void
    /\ UNCHANGED <<hostVars, chats, sessionState, exchanges, facts, contradictions,
                   nextFactId, today, turn, bi, rt, queueVars, episodes, open_loops, files>>

NextIndex ==
    \/ \E c \in Chats : GetChatState(c)
    \/ \E text \in FileTexts : EditFile(text)
    \/ \E c \in Chats : IndexDocument(c)
    \/ Tick

SpecIndex == Init /\ [][NextIndex]_vars

(* the rows of documents for (chat, path) *)
ChunksOf(docs, chatId, docPath) == {d \in docs : d.chat_id = chatId /\ d.path = docPath}

(* the chunks of the file as it is now *)
CurrentChunks(fs, docPath) == chunkDocument(readText(fs, docPath, <<>>), ChunkSize, ChunkOverlap)

(* the rows an indexing of the current text writes *)
CurrentRows(fs, chatId, docPath, tags, now) ==
    {[chat_id |-> chatId, path |-> docPath, chunk_index |-> i - 1,
      text |-> CurrentChunks(fs, docPath)[i], tags |-> Unique(tags), created_at |-> now] :
        i \in 1..Len(CurrentChunks(fs, docPath))}

(* C37 as stated: after indexDocument(chat, path) the rows of (chat, path)   *)
(* are exactly the chunks of the file's current content.                     *)
C37_Original ==
    [][\A c \in Chats : IndexDocument(c) =>
          ChunksOf(documents', c, paths.soul)
              = CurrentRows(files, c, paths.soul, SoulTags, today)]_vars

(* C37: after indexDocument(chat, path) every chunk of the file's current    *)
(* content is stored under its index, once; the rows of (chat, path) with an *)
(* index at or above the number of current chunks are the rows that were     *)
(* there before, unchanged; the rows of every other (chat, path) are         *)
(* unchanged.                                                                *)
C37_CurrentChunksOverwriteInPlace ==
    [][\A c \in Chats : IndexDocument(c) =>
          LET n == Len(CurrentChunks(files, paths.soul))
              after == ChunksOf(documents', c, paths.soul)
              before == ChunksOf(documents, c, paths.soul)
          IN /\ {d \in after : d.chunk_index < n}
                    = CurrentRows(files, c, paths.soul, SoulTags, today)
             /\ {d \in after : d.chunk_index >= n} = {d \in before : d.chunk_index >= n}
             /\ documents' \ after = documents \ before]_vars

(* C37 witness: SOUL.md holds the text of two chunks and chat 1 has both of  *)
(* them, over the rows of an indexing of an earlier text, beside the rows    *)
(* of chat 2.                                                                *)
C37_Witness ==
    /\ readText(files, paths.soul, <<>>) = LongText
    /\ today = 1
    /\ ChunksOf(documents, 1, paths.soul) = CurrentRows(files, 1, paths.soul, SoulTags, 1)
    /\ Len(CurrentChunks(files, paths.soul)) = 2
    /\ \E d \in ChunksOf(documents, 2, paths.soul) : d.created_at = 0

(* SOUL.md was indexed with two chunks, became shorter and was indexed       *)
(* again: the second chunk of the longer text is still a row of the chat.    *)
C37_StaleChunkRemains ==
    /\ readText(files, paths.soul, <<>>) = ShortText
    /\ \E d \in ChunksOf(documents, 1, paths.soul) :
          d.chunk_index = 0 /\ d.text = Trim(ShortText)
    /\ \E d \in ChunksOf(documents, 1, paths.soul) :
          d.chunk_index = 1 /\ d.text = SubSeq(LongText, StepOfChunks + 1, LongTextLen)

=============================================================================
